---- MODULE Spec2Model ----
(***************************************************************************)
(* A model of the See-Think-Act agent: the loop controller                 *)
(* (see_think_act_agent.py), the reply parser (utils/ollama_client.py)     *)
(* and the action executor (utils/action_executor.py).                     *)
(*                                                                         *)
(* Python dictionaries are TLA+ functions whose domain is the set of keys  *)
(* present; d.get(k, dflt) is Get(d, k, dflt).  A str where a dict is      *)
(* expected is the tagged value [str |-> ..], so that isinstance(_, str)   *)
(* is a test on the domain.                                                *)
(***************************************************************************)
EXTENDS Integers, Sequences, FiniteSets, TLC

VARIABLES
    screen,                \* ActionExecutor.screen_width / screen_height
    max_iterations,        \* SeeThinkActAgent.max_iterations
    pc,                    \* position of the control flow inside run()
    iteration_count,       \* SeeThinkActAgent.iteration_count
    task_completed,        \* SeeThinkActAgent.task_completed
    task_status,           \* SeeThinkActAgent.task_status
    conversation_history,  \* SeeThinkActAgent.conversation_history
    response,              \* run(): the reply of the current iteration
    success,               \* run(): the value _execute_action returned
    result,                \* the Run Result run() returned, NoResult before
    cursor,                \* the OS mouse cursor position
    captures,              \* screen captures made in the current run
    inferences,            \* inference round trips made in the current run
    exec_calls,            \* executor invocations made in the current run
    os_inputs,             \* OS input calls issued in the current run
    exec_arg,              \* the action last passed to the executor
    exec_out,              \* what the executor did with it
    interrupted_at,        \* where a KeyboardInterrupt arrived in the run
    user_prompt,           \* _think_and_decide: the wording of the last prompt sent
    monitors,              \* ScreenshotCapture: the monitor list of the capture device
    capture_arg,           \* the request last made to ScreenshotCapture
    capture_out            \* what ScreenshotCapture did with it

vars == <<screen, max_iterations, pc, iteration_count, task_completed,
          task_status, conversation_history, response, success, result,
          cursor, captures, inferences, exec_calls, os_inputs, exec_arg,
          exec_out, interrupted_at, user_prompt, monitors, capture_arg,
          capture_out>>

(***************************************************************************)
(* Bounds of the model.                                                    *)
(***************************************************************************)
MaxIter == 2
MaxMonitors == 2

(***************************************************************************)
(* Python values.                                                          *)
(***************************************************************************)
None == "<None>"
EmptyDict == <<>>
Get(d, k, dflt) == IF k \in DOMAIN d THEN d[k] ELSE dflt
IsStr(v) == "str" \in DOMAIN v
IsDict(v) == "str" \notin DOMAIN v /\ "nondict" \notin DOMAIN v
JsonStr(d) == [str |-> "json", loads |-> d]
BadJsonStr == [str |-> "malformed"]
NonDict == [nondict |-> "list"]
TruthyName(n) == n # None /\ n # ""
TruthyArgs(a) == a # EmptyDict

(***************************************************************************)
(* int((norm / 1000.0) * dim) in IEEE-754 double arithmetic.               *)
(* norm / 1000.0 is rounded to a 53-bit mantissa M with error              *)
(* e = 1000*M - norm*2^s (s = 52 + BinExp(norm)); the product with dim is  *)
(* rounded again and then truncated.  The truncation differs from          *)
(* floor(norm*dim/1000) only when norm*dim/1000 is a whole number n and    *)
(* the rounded product falls below n, which is when e < 0 and              *)
(* |e|*dim/(1000*2^s) exceeds half the gap between n and the double below. *)
(***************************************************************************)
NormScale == 1000

RECURSIVE Pow2(_)
Pow2(n) == IF n <= 0 THEN 1 ELSE 2 * Pow2(n - 1)

RECURSIVE BinExpFrom(_, _)
BinExpFrom(x, t) == IF x * Pow2(t) >= NormScale THEN t ELSE BinExpFrom(x, t + 1)

BinExp(x) == BinExpFrom(x, 0)

RECURSIVE DoubleMod(_, _)
DoubleMod(r, n) == IF n = 0 THEN r ELSE DoubleMod((2 * r) % NormScale, n - 1)

QuotientError(x) ==
    LET r == DoubleMod(x % NormScale, 52 + BinExp(x))
    IN  IF r = 0 THEN 0 ELSE IF 2 * r > NormScale THEN NormScale - r ELSE 0 - r

RECURSIVE Log2BelowFrom(_, _)
Log2BelowFrom(n, k) == IF Pow2(k + 1) >= n THEN k ELSE Log2BelowFrom(n, k + 1)

\* k + 1 where 2^k < n <= 2^(k+1), for n >= 1
Log2Below1(n) == IF n <= 1 THEN 0 ELSE Log2BelowFrom(n, 0) + 1

to_pixel_round(norm, dim) ==
    LET p == norm * dim
        n == p \div NormScale
        f == p % NormScale
    IN  IF 2 * f > NormScale \/ (2 * f = NormScale /\ n % 2 = 1) THEN n + 1 ELSE n

to_pixel(norm, dim) ==
    LET p == norm * dim
        n == p \div NormScale
        e == QuotientError(norm)
        sh == BinExp(norm) + Log2Below1(n)
    IN  IF p % NormScale # 0 \/ n = 0 \/ e >= 0 THEN n
        ELSE IF sh < 15 /\ (0 - e) * dim * 4 > NormScale * Pow2(sh) THEN n - 1
        ELSE n

(***************************************************************************)
(* The OS input primitives (pyautogui) behind the executor's wrappers.     *)
(* An outcome is what one call did: whether an exception left it, the      *)
(* value returned, the OS input calls issued and the cursor afterwards.    *)
(* os_ok = FALSE is the primitive raising (a fail-safe trigger, an invalid *)
(* argument): the wrapper catches it and returns False; the call is        *)
(* recorded with raised = TRUE and leaves the cursor where it was.         *)
(***************************************************************************)
Clamp(v, dim) == IF v < 0 THEN 0 ELSE IF v > dim - 1 THEN dim - 1 ELSE v

OnScreen(x, y, scr) == <<Clamp(x, scr.w), Clamp(y, scr.h)>>

Outcome(raised, ret, calls, cur) ==
    [raised |-> raised, ret |-> ret, calls |-> calls, cursor |-> cur]

Raise(cur) == Outcome(TRUE, FALSE, <<>>, cur)

click(x, y, button, clicks, scr, cur, os_ok) ==
    Outcome(FALSE, os_ok,
            <<[fn |-> "click", x |-> x, y |-> y, button |-> button, clicks |-> clicks,
               raised |-> ~os_ok]>>,
            IF os_ok THEN OnScreen(x, y, scr) ELSE cur)

click_normalized(x_norm, y_norm, button, clicks, scr, cur, os_ok) ==
    click(to_pixel(x_norm, scr.w), to_pixel(y_norm, scr.h),
          button, clicks, scr, cur, os_ok)

move_mouse(x, y, scr, cur, os_ok) ==
    Outcome(FALSE, os_ok, <<[fn |-> "moveTo", x |-> x, y |-> y, raised |-> ~os_ok]>>,
            IF os_ok THEN OnScreen(x, y, scr) ELSE cur)

type_text(text, cur, os_ok) ==
    Outcome(FALSE, os_ok, <<[fn |-> "write", text |-> text, raised |-> ~os_ok]>>, cur)

press_key_enter(key, cur, os_ok) ==
    Outcome(FALSE, os_ok, <<[fn |-> "press", key |-> "enter", raised |-> ~os_ok]>>, cur)

press_key(key, cur, os_ok) ==
    Outcome(FALSE, os_ok, <<[fn |-> "press", key |-> key, raised |-> ~os_ok]>>, cur)

scroll(clicks, cur, os_ok) ==
    Outcome(FALSE, os_ok, <<[fn |-> "scroll", clicks |-> clicks, raised |-> ~os_ok]>>, cur)

\* pyautogui.drag moves by an offset relative to the current position
drag(x, y, scr, cur, os_ok) ==
    Outcome(FALSE, os_ok, <<[fn |-> "drag", x |-> x, y |-> y, raised |-> ~os_ok]>>,
            IF os_ok THEN OnScreen(cur[1] + x, cur[2] + y, scr) ELSE cur)

(***************************************************************************)
(* ActionExecutor._execute_computer_action: dispatch on args['action'].    *)
(* coordinate[0] / coordinate[1] raise on a coordinate with fewer than two *)
(* elements; args.get raises when args is no dict.                         *)
(***************************************************************************)
ClickTypes == {"left_click", "right_click", "double_click", "middle_click"}
ButtonOf(t) == IF t = "right_click" THEN "right" ELSE IF t = "middle_click" THEN "middle" ELSE "left"
ClicksAlwaysOne(t) == 1

ClicksOf(t) == IF t = "double_click" THEN 2 ELSE 1

_execute_computer_action(args, scr, cur, os_ok) ==
    IF ~IsDict(args) THEN Raise(cur)
    ELSE
    LET action_type == Get(args, "action", None)
        coordinate == Get(args, "coordinate", <<500, 500>>)
    IN  IF action_type \in ClickTypes THEN
            IF Len(coordinate) < 2 THEN Raise(cur)
            ELSE click_normalized(coordinate[1], coordinate[2], ButtonOf(action_type),
                                  ClicksOf(action_type), scr, cur, os_ok)
        ELSE IF action_type = "left_click_drag" THEN
            IF Len(coordinate) < 2 THEN Raise(cur)
            ELSE drag(to_pixel(coordinate[1], scr.w), to_pixel(coordinate[2], scr.h),
                      scr, cur, os_ok)
        ELSE IF action_type = "mouse_move" THEN
            IF Len(coordinate) < 2 THEN Raise(cur)
            ELSE move_mouse(to_pixel(coordinate[1], scr.w), to_pixel(coordinate[2], scr.h),
                            scr, cur, os_ok)
        ELSE IF action_type = "type" THEN type_text(Get(args, "text", ""), cur, os_ok)
        ELSE IF action_type = "key" THEN press_key(Get(args, "text", "enter"), cur, os_ok)
        ELSE IF action_type = "scroll" THEN scroll(Get(args, "scroll_amount", 0), cur, os_ok)
        ELSE IF action_type = "screenshot" THEN Outcome(FALSE, TRUE, <<>>, cur)
        ELSE IF action_type = "cursor_position" THEN Outcome(FALSE, TRUE, <<>>, cur)
        ELSE Outcome(FALSE, FALSE, <<>>, cur)

(***************************************************************************)
(* ActionExecutor.execute_computer_use_action: the body of its try block,  *)
(* and the function with its `except Exception: return False`.             *)
(***************************************************************************)
ToolNames == {"computer", "computer_use"}

execute_try_body(action, scr, cur, os_ok) ==
    IF ~IsDict(action) THEN Raise(cur)
    ELSE
    LET function == Get(action, "function", EmptyDict)
        action_name == IF TruthyName(Get(action, "name", None)) THEN action["name"]
                       ELSE Get(function, "name", None)
        given == IF TruthyArgs(Get(action, "arguments", EmptyDict)) THEN action["arguments"]
                 ELSE Get(function, "arguments", EmptyDict)
    IN  IF IsStr(given) /\ given["str"] # "json" THEN Raise(cur)
        ELSE LET arguments == IF IsStr(given) THEN given["loads"] ELSE given
             IN  IF action_name \in ToolNames
                 THEN _execute_computer_action(arguments, scr, cur, os_ok)
                 ELSE Outcome(FALSE, FALSE, <<>>, cur)

execute_computer_use_action_uncaught(action, scr, cur, os_ok) ==
    execute_try_body(action, scr, cur, os_ok)

execute_computer_use_action_probes(action, scr, cur, os_ok) ==
    LET out == execute_try_body(action, scr, cur, os_ok)
    IN  IF out.raised THEN Outcome(FALSE, FALSE, out.calls, out.cursor)
        ELSE IF out.ret /\ out.calls = <<>>
        THEN Outcome(FALSE, os_ok, <<[fn |-> "moveTo", x |-> 0, y |-> 0, raised |-> ~os_ok]>>,
                     IF os_ok THEN <<0, 0>> ELSE cur)
        ELSE out

execute_computer_use_action(action, scr, cur, os_ok) ==
    LET out == execute_try_body(action, scr, cur, os_ok)
    IN  IF out.raised THEN Outcome(FALSE, FALSE, out.calls, out.cursor) ELSE out

(***************************************************************************)
(* Model replies.  The text of a reply is a sequence of tokens: literal    *)
(* pieces of text and JSON documents, so that `in`, split, strip, lower    *)
(* and json.loads can be computed on it.                                   *)
(***************************************************************************)
Lit(s) == [lit |-> s]
Json(v) == [json |-> v]
Open == Lit("<tool_call>")
Close == Lit("</tool_call>")
IsJson(tok) == "json" \in DOMAIN tok

\* str.lower() of a literal piece of text
Lower(s) ==
    IF s = "Task Complete" THEN "task complete"
    ELSE IF s = "TERMINATE" THEN "terminate"
    ELSE s

\* 'terminate' in text or 'complete' in text, for lower-case text
HasKeyword(s) == s \in {"terminate", "complete", "task complete", "complete the form"}

\* the words a serialized JSON document carries
JsonWords(v) ==
    IF ~IsDict(v) THEN {}
    ELSE LET f == Get(v, "function", EmptyDict)
             a0 == IF "arguments" \in DOMAIN v THEN v["arguments"] ELSE Get(f, "arguments", EmptyDict)
             a == IF IsStr(a0) THEN Get(a0, "loads", EmptyDict) ELSE a0
         IN  IF IsDict(a) THEN {Get(a, "action", None), Get(a, "status", None), Get(a, "text", None)}
             ELSE {}

TokenHasKeyword(tok) ==
    IF IsJson(tok) THEN \E w \in JsonWords(tok["json"]) : HasKeyword(Lower(w))
    ELSE HasKeyword(Lower(tok["lit"]))

\* 'terminate' in content.lower() or 'complete' in content.lower()
ContentHasKeyword(content) == \E i \in 1..Len(content) : TokenHasKeyword(content[i])

Contains(content, tok) == \E i \in 1..Len(content) : content[i] = tok

RECURSIVE FirstFrom(_, _, _)
FirstFrom(content, tok, i) ==
    IF i > Len(content) THEN 0
    ELSE IF content[i] = tok THEN i
    ELSE FirstFrom(content, tok, i + 1)

\* content.split(tok)[0]
BeforeFirst(content, tok) ==
    LET i == FirstFrom(content, tok, 1)
    IN  IF i = 0 THEN content ELSE SubSeq(content, 1, i - 1)

\* content.split(tok)[1], for a content that holds tok
AfterFirst(content, tok) ==
    LET i == FirstFrom(content, tok, 1)
    IN  BeforeFirst(SubSeq(content, i + 1, Len(content)), tok)

\* json.loads(text): one JSON document and nothing else, or JSONDecodeError
JsonValid(text) == Len(text) = 1 /\ IsJson(text[1])

(***************************************************************************)
(* OllamaVisionClient.extract_tool_calls, parse_computer_use_action.       *)
(***************************************************************************)
NoneAction == [none |-> TRUE]

extract_tool_calls(resp) ==
    IF "message" \in DOMAIN resp /\ "tool_calls" \in DOMAIN resp["message"]
    THEN resp["message"]["tool_calls"]
    ELSE <<>>

HasContent(resp) == "message" \in DOMAIN resp /\ "content" \in DOMAIN resp["message"]

payload_text(content) == BeforeFirst(AfterFirst(content, Open), Close)

parse_computer_use_action_last(resp) ==
    LET tool_calls == extract_tool_calls(resp)
    IN  IF tool_calls # <<>> THEN tool_calls[Len(tool_calls)]
        ELSE NoneAction

parse_computer_use_action_payload_first(resp) ==
    LET tool_calls == extract_tool_calls(resp)
    IN  IF HasContent(resp)
           /\ Contains(resp["message"]["content"], Open)
           /\ Contains(resp["message"]["content"], Close)
           /\ JsonValid(payload_text(resp["message"]["content"]))
        THEN payload_text(resp["message"]["content"])[1]["json"]
        ELSE IF tool_calls # <<>> THEN tool_calls[1]
        ELSE NoneAction

parse_computer_use_action(resp) ==
    LET tool_calls == extract_tool_calls(resp)
    IN  IF tool_calls # <<>> THEN tool_calls[1]
        ELSE IF HasContent(resp)
                /\ Contains(resp["message"]["content"], Open)
                /\ Contains(resp["message"]["content"], Close)
                /\ JsonValid(payload_text(resp["message"]["content"]))
        THEN payload_text(resp["message"]["content"])[1]["json"]
        ELSE NoneAction

(***************************************************************************)
(* SeeThinkActAgent._execute_action.  A step is what one call did: whether *)
(* an exception left it (and which), the value returned, the completion    *)
(* flag and status afterwards, whether the executor was invoked, with what *)
(* and to what effect, and whether the settle pause (time.sleep(1)) runs.  *)
(***************************************************************************)
NoArg == [none |-> TRUE]
NoOut(cur) == Outcome(FALSE, FALSE, <<>>, cur)

Step(raised, exc, ret, completed, status, executed, arg, out, settle) ==
    [raised |-> raised, exc |-> exc, ret |-> ret, task_completed |-> completed,
     task_status |-> status, executed |-> executed, arg |-> arg, out |-> out,
     settle |-> settle]

Falsy(action) == action = NoneAction \/ action = EmptyDict

act_on_failure_raises(action_name, arguments, completed, status, scr, cur, os_ok) ==
    LET arg == [name |-> action_name, arguments |-> arguments]
        out == execute_computer_use_action(arg, scr, cur, os_ok)
    IN  Step(~out.ret, "executor failed", out.ret, completed, status, TRUE, arg, out,
             out.ret /\ Get(arguments, "action", None) # "wait")

act_on_settles_always(action_name, arguments, completed, status, scr, cur, os_ok) ==
    LET arg == [name |-> action_name, arguments |-> arguments]
        out == execute_computer_use_action(arg, scr, cur, os_ok)
    IN  Step(out.raised, "executor", out.ret, completed, status, TRUE, arg, out, TRUE)

\* lines 247-258: invoke the executor, pause when it succeeded and was no wait
act_on(action_name, arguments, completed, status, scr, cur, os_ok) ==
    LET arg == [name |-> action_name, arguments |-> arguments]
        out == execute_computer_use_action(arg, scr, cur, os_ok)
    IN  Step(out.raised, "executor", out.ret, completed, status, TRUE, arg, out,
             out.ret /\ Get(arguments, "action", None) # "wait")

\* lines 234-258: the branch on arguments['action']
decide_no_intercept(action_name, arguments, completed, status, scr, cur, os_ok) ==
    IF ~IsDict(arguments)
    THEN Step(TRUE, "AttributeError", FALSE, completed, status, FALSE, NoArg, NoOut(cur), FALSE)
    ELSE act_on(action_name, arguments, completed, status, scr, cur, os_ok)

decide_answer_terminates(action_name, arguments, completed, status, scr, cur, os_ok) ==
    IF ~IsDict(arguments)
    THEN Step(TRUE, "AttributeError", FALSE, completed, status, FALSE, NoArg, NoOut(cur), FALSE)
    ELSE IF Get(arguments, "action", None) \in {"terminate", "answer"}
    THEN Step(FALSE, "", TRUE, TRUE, Get(arguments, "status", "success"),
              FALSE, NoArg, NoOut(cur), FALSE)
    ELSE act_on(action_name, arguments, completed, status, scr, cur, os_ok)

decide_checks_tool_name(action_name, arguments, completed, status, scr, cur, os_ok) ==
    IF ~IsDict(arguments)
    THEN Step(TRUE, "AttributeError", FALSE, completed, status, FALSE, NoArg, NoOut(cur), FALSE)
    ELSE IF action_name \notin ToolNames
    THEN Step(FALSE, "", FALSE, completed, status, FALSE, NoArg, NoOut(cur), FALSE)
    ELSE IF Get(arguments, "action", None) = "terminate"
    THEN Step(FALSE, "", TRUE, TRUE, Get(arguments, "status", "success"),
              FALSE, NoArg, NoOut(cur), FALSE)
    ELSE IF Get(arguments, "action", None) = "answer"
    THEN Step(FALSE, "", TRUE, completed, status, FALSE, NoArg, NoOut(cur), FALSE)
    ELSE act_on(action_name, arguments, completed, status, scr, cur, os_ok)

decide(action_name, arguments, completed, status, scr, cur, os_ok) ==
    IF ~IsDict(arguments)
    THEN Step(TRUE, "AttributeError", FALSE, completed, status, FALSE, NoArg, NoOut(cur), FALSE)
    ELSE IF Get(arguments, "action", None) = "terminate"
    THEN Step(FALSE, "", TRUE, TRUE, Get(arguments, "status", "success"),
              FALSE, NoArg, NoOut(cur), FALSE)
    ELSE IF Get(arguments, "action", None) = "answer"
    THEN Step(FALSE, "", TRUE, completed, status, FALSE, NoArg, NoOut(cur), FALSE)
    ELSE act_on(action_name, arguments, completed, status, scr, cur, os_ok)

\* lines 205-219: no action found, the keyword scan of the reply text
no_action_reports_success(resp, completed, status, cur) ==
    IF HasContent(resp) /\ ContentHasKeyword(resp["message"]["content"])
    THEN Step(FALSE, "", TRUE, TRUE, "success", FALSE, NoArg, NoOut(cur), FALSE)
    ELSE Step(FALSE, "", TRUE, completed, status, FALSE, NoArg, NoOut(cur), FALSE)

no_action_ignores_keywords(resp, completed, status, cur) ==
    Step(FALSE, "", FALSE, completed, status, FALSE, NoArg, NoOut(cur), FALSE)

no_action(resp, completed, status, cur) ==
    IF HasContent(resp) /\ ContentHasKeyword(resp["message"]["content"])
    THEN Step(FALSE, "", TRUE, TRUE, "success", FALSE, NoArg, NoOut(cur), FALSE)
    ELSE Step(FALSE, "", FALSE, completed, status, FALSE, NoArg, NoOut(cur), FALSE)

_execute_action_scans_first(resp, completed, status, scr, cur, os_ok) ==
    IF HasContent(resp) /\ ContentHasKeyword(resp["message"]["content"])
    THEN Step(FALSE, "", TRUE, TRUE, "success", FALSE, NoArg, NoOut(cur), FALSE)
    ELSE no_action(resp, completed, status, cur)

_execute_action(resp, completed, status, scr, cur, os_ok) ==
    LET action == parse_computer_use_action(resp)
    IN  IF Falsy(action) THEN no_action(resp, completed, status, cur)
        ELSE IF ~IsDict(action)
        THEN Step(TRUE, "AttributeError", FALSE, completed, status, FALSE, NoArg, NoOut(cur), FALSE)
        ELSE IF "function" \in DOMAIN action
        THEN LET action_details == action["function"]
                 given == Get(action_details, "arguments", EmptyDict)
             IN  IF IsStr(given) /\ given["str"] # "json"
                 THEN Step(TRUE, "JSONDecodeError", FALSE, completed, status, FALSE,
                           NoArg, NoOut(cur), FALSE)
                 ELSE decide(Get(action_details, "name", None),
                             IF IsStr(given) THEN given["loads"] ELSE given,
                             completed, status, scr, cur, os_ok)
        ELSE decide(Get(action, "name", "computer"), Get(action, "arguments", EmptyDict),
                    completed, status, scr, cur, os_ok)

\* the Action Descriptor a reply carries: the arguments _execute_action acts on
HasDescriptor(resp) ==
    LET action == parse_computer_use_action(resp)
    IN  /\ ~Falsy(action)
        /\ IsDict(action)
        /\ IF "function" \in DOMAIN action
           THEN LET given == Get(action["function"], "arguments", EmptyDict)
                IN  IF IsStr(given) THEN given["str"] = "json" /\ IsDict(given["loads"])
                    ELSE IsDict(given)
           ELSE IsDict(Get(action, "arguments", EmptyDict))

Descriptor(resp) ==
    LET action == parse_computer_use_action(resp)
    IN  IF ~HasDescriptor(resp) THEN EmptyDict
        ELSE IF "function" \in DOMAIN action
        THEN LET given == Get(action["function"], "arguments", EmptyDict)
             IN  IF IsStr(given) THEN given["loads"] ELSE given
        ELSE Get(action, "arguments", EmptyDict)

ActionOf(resp) == Get(Descriptor(resp), "action", None)

(***************************************************************************)
(* The replies the model service may send, and the screens.                *)
(***************************************************************************)
Call(name, arguments) == [function |-> [name |-> name, arguments |-> arguments]]
Flat(name, arguments) == [name |-> name, arguments |-> arguments]
Reply(content, tool_calls) == [message |-> [content |-> content, tool_calls |-> tool_calls]]
TextReply(content) == [message |-> [content |-> content]]
ToolReply(arguments) == Reply(<<>>, <<Call("computer", arguments)>>)

Replies ==
    { ToolReply([action |-> "left_click", coordinate |-> <<500, 500>>]),
      ToolReply([action |-> "left_click_drag", coordinate |-> <<1000, 1000>>]),
      ToolReply([action |-> "double_click", coordinate |-> <<7>>]),
      ToolReply([action |-> "terminate", status |-> "success"]),
      ToolReply([action |-> "terminate", status |-> "failure"]),
      ToolReply([action |-> "terminate"]),
      ToolReply([action |-> "terminate", status |-> "done"]),
      ToolReply([action |-> "answer", text |-> "it is open"]),
      ToolReply([action |-> "wait", time |-> 2]),
      ToolReply([action |-> "screenshot"]),
      ToolReply([action |-> "hover"]),
      Reply(<<>>, <<Call("browser", [action |-> "key", text |-> "tab"])>>),
      Reply(<<>>, <<Call("browser", [action |-> "terminate", status |-> "success"])>>),
      Reply(<<>>, <<Call("browser", [action |-> "answer", text |-> "a page"])>>),
      Reply(<<>>, <<Call("computer", JsonStr([action |-> "scroll", scroll_amount |-> 0 - 3]))>>),
      Reply(<<>>, <<Call("computer", BadJsonStr)>>),
      Reply(<<>>, <<Call("computer", [action |-> "type", text |-> "hello"]),
                    Call("computer", [action |-> "terminate", status |-> "success"])>>),
      Reply(<<Lit("Task Complete")>>, <<Call("computer", [action |-> "key"])>>),
      Reply(<<Open, Json(Flat("computer", [action |-> "terminate", status |-> "failure"])),
              Close>>,
            <<Call("computer", [action |-> "scroll", scroll_amount |-> 5])>>),
      TextReply(<<Lit("I see a desktop")>>),
      TextReply(<<Lit("complete the form")>>),
      TextReply(<<Lit("ok"), Open,
                  Json(Flat("computer", [action |-> "mouse_move", coordinate |-> <<1, 999>>])),
                  Close>>),
      TextReply(<<Open, Json(Flat("computer", [action |-> "terminate", status |-> "failure"])),
                  Close>>),
      TextReply(<<Open, Lit("not json"), Close>>),
      TextReply(<<Open, Json(Flat("computer", [action |-> "terminate"])), Lit("not json"),
                  Close>>),
      TextReply(<<Open, Json(NonDict), Close>>),
      TextReply(<<Open, Json(EmptyDict), Close>>),
      [done |-> TRUE] }

Screens == { [w |-> 1920, h |-> 1080], [w |-> 1440, h |-> 900], [w |-> 800, h |-> 600] }

(***************************************************************************)
(* ScreenshotCapture.  self.sct.monitors is a Python list: entry 0 is the  *)
(* bounding box of all monitors together, entries 1.. are the monitors,    *)
(* here placed side by side from the left.  A capture result is whether    *)
(* an exception left the call, its type, and the value returned.           *)
(***************************************************************************)
Monitor(left, scr) == [left |-> left, top |-> 0, width |-> scr.w, height |-> scr.h]

RECURSIVE Placed(_, _)
Placed(scrs, left) ==
    IF scrs = <<>> THEN <<>>
    ELSE <<Monitor(left, Head(scrs))>> \o Placed(Tail(scrs), left + Head(scrs).w)

RECURSIVE TotalWidth(_)
TotalWidth(scrs) == IF scrs = <<>> THEN 0 ELSE Head(scrs).w + TotalWidth(Tail(scrs))

RECURSIVE MaxHeight(_)
MaxHeight(scrs) ==
    IF scrs = <<>> THEN 0
    ELSE LET h == MaxHeight(Tail(scrs)) IN IF Head(scrs).h > h THEN Head(scrs).h ELSE h

MonitorList(scrs) ==
    <<[left |-> 0, top |-> 0, width |-> TotalWidth(scrs), height |-> MaxHeight(scrs)]>>
    \o Placed(scrs, 0)

MonitorLists == UNION { { MonitorList(s) : s \in [1..n -> Screens] } : n \in 1..MaxMonitors }

MonitorNumbers == (0 - MaxMonitors - 2)..(MaxMonitors + 2)

CaptureRaised(exc) == [raised |-> TRUE, exc |-> exc, value |-> None]
CaptureReturned(v) == [raised |-> FALSE, exc |-> None, value |-> v]
NoCaptureOut == CaptureReturned(None)

\* lst[i] of a Python list: a negative i counts from the end of the list
list_getitem(lst, i) ==
    LET j == IF i < 0 THEN i + Len(lst) ELSE i
    IN  IF j < 0 \/ j >= Len(lst) THEN CaptureRaised("IndexError")
        ELSE CaptureReturned(lst[j + 1])

\* lines 19-34; grab_ok = FALSE is sct.grab raising
capture_screen(mons, monitor_number, grab_ok) ==
    LET monitor == list_getitem(mons, monitor_number)
    IN  IF monitor.raised THEN monitor
        ELSE IF ~grab_ok THEN CaptureRaised("ScreenShotError")
        ELSE CaptureReturned([mode |-> "RGB",
                              size |-> <<monitor.value.width, monitor.value.height>>,
                              left |-> monitor.value.left, top |-> monitor.value.top])

\* lines 72-83
get_screen_size(mons, monitor_number) ==
    LET monitor == list_getitem(mons, monitor_number)
    IN  IF monitor.raised THEN monitor
        ELSE CaptureReturned(<<monitor.value.width, monitor.value.height>>)

(***************************************************************************)
(* SeeThinkActAgent.run.  pc is the statement run() is at: "idle" before   *)
(* any call, "while" at the loop test, then "capture", "think", "act",     *)
(* "settle" (the pause inside _execute_action), "delay", and "returned".   *)
(***************************************************************************)
NoResponse == [none |-> TRUE]
NoResult == [none |-> TRUE]
InTry == {"while", "capture", "think", "act", "settle", "delay"}

RunResult(ok, status, message, iterations) ==
    [success |-> ok, status |-> status, message |-> message, iterations |-> iterations]

Returned == pc = "returned" /\ result # NoResult

Init ==
    /\ screen = [w |-> 1920, h |-> 1080]
    /\ max_iterations \in (0 - 1)..MaxIter
    /\ pc = "idle"
    /\ iteration_count = 0
    /\ task_completed = FALSE
    /\ task_status = None
    /\ conversation_history = <<>>
    /\ response = NoResponse
    /\ success = FALSE
    /\ result = NoResult
    /\ cursor = <<10, 10>>
    /\ captures = 0
    /\ inferences = 0
    /\ exec_calls = 0
    /\ os_inputs = 0
    /\ exec_arg = NoArg
    /\ exec_out = NoOut(<<10, 10>>)
    /\ interrupted_at = "none"
    /\ user_prompt = None
    /\ monitors = MonitorList(<<[w |-> 1920, h |-> 1080]>>)
    /\ capture_arg = NoArg
    /\ capture_out = NoCaptureOut

RunStartWithoutReset ==
    /\ pc \in {"idle", "returned"}
    /\ pc' = "while"
    /\ result' = NoResult
    /\ interrupted_at' = "none"
    /\ UNCHANGED <<monitors, capture_arg, capture_out,
                   screen, max_iterations, iteration_count, task_completed, task_status,
                   conversation_history, response, success, cursor, captures,
                   inferences, exec_calls, os_inputs, exec_arg, exec_out, user_prompt>>

RunStartKeepsFlags ==
    /\ pc \in {"idle", "returned"}
    /\ pc' = "while"
    /\ iteration_count' = 0
    /\ conversation_history' = <<>>
    /\ response' = NoResponse
    /\ success' = FALSE
    /\ result' = NoResult
    /\ captures' = 0
    /\ inferences' = 0
    /\ exec_calls' = 0
    /\ os_inputs' = 0
    /\ exec_arg' = NoArg
    /\ exec_out' = NoOut(cursor)
    /\ interrupted_at' = "none"
    /\ user_prompt' = None
    /\ UNCHANGED <<monitors, capture_arg, capture_out,
                   screen, max_iterations, cursor, task_completed, task_status>>

\* lines 274-280: run() is entered and resets the state
RunStart ==
    /\ pc \in {"idle", "returned"}
    /\ pc' = "while"
    /\ iteration_count' = 0
    /\ task_completed' = FALSE
    /\ task_status' = None
    /\ conversation_history' = <<>>
    /\ response' = NoResponse
    /\ success' = FALSE
    /\ result' = NoResult
    /\ captures' = 0
    /\ inferences' = 0
    /\ exec_calls' = 0
    /\ os_inputs' = 0
    /\ exec_arg' = NoArg
    /\ exec_out' = NoOut(cursor)
    /\ interrupted_at' = "none"
    /\ user_prompt' = None
    /\ UNCHANGED <<monitors, capture_arg, capture_out,
                   screen, max_iterations, cursor>>

\* line 283: the loop test
loop_test_inclusive(count, max, completed) == count <= max /\ ~completed

loop_test_ignores_ceiling(count, max, completed) == ~completed

loop_test_ignores_completion(count, max, completed) == count < max

loop_test(count, max, completed) == count < max /\ ~completed

\* lines 283-284: the loop test holds, the iteration starts
LoopEnter ==
    /\ pc = "while"
    /\ loop_test(iteration_count, max_iterations, task_completed)
    /\ iteration_count' = iteration_count + 1
    /\ pc' = "capture"
    /\ UNCHANGED <<monitors, capture_arg, capture_out,
                   screen, max_iterations, task_completed, task_status,
                   conversation_history, response, success, result, cursor, captures,
                   inferences, exec_calls, os_inputs, exec_arg, exec_out,
                   interrupted_at, user_prompt>>

\* lines 310-338: the result after the loop
loop_result_completed_is_success(completed, status, count, max) ==
    IF completed
    THEN RunResult(TRUE, status, <<"Task completed in", count, "iterations">>, count)
    ELSE RunResult(FALSE, "timeout",
                   <<"Task did not complete within", max, "iterations">>, count)

loop_result_counts_finished(completed, status, count, max) ==
    IF completed
    THEN RunResult(status = "success", status,
                   <<"Task completed in", count - 1, "iterations">>, count - 1)
    ELSE RunResult(FALSE, "timeout",
                   <<"Task did not complete within", max, "iterations">>, count)

loop_result_truthy_status(completed, status, count, max) ==
    IF completed
    THEN RunResult(status # None, status,
                   <<"Task completed in", count, "iterations">>, count)
    ELSE RunResult(FALSE, "timeout",
                   <<"Task did not complete within", max, "iterations">>, count)

loop_result_timeout_at_ceiling(completed, status, count, max) ==
    IF completed /\ count < max
    THEN RunResult(status = "success", status,
                   <<"Task completed in", count, "iterations">>, count)
    ELSE RunResult(FALSE, "timeout",
                   <<"Task did not complete within", max, "iterations">>, count)

loop_result(completed, status, count, max) ==
    IF completed
    THEN RunResult(status = "success", status,
                   <<"Task completed in", count, "iterations">>, count)
    ELSE RunResult(FALSE, "timeout",
                   <<"Task did not complete within", max, "iterations">>, count)

LoopExit ==
    /\ pc = "while"
    /\ ~loop_test(iteration_count, max_iterations, task_completed)
    /\ result' = loop_result(task_completed, task_status, iteration_count, max_iterations)
    /\ pc' = "returned"
    /\ UNCHANGED <<monitors, capture_arg, capture_out,
                   screen, max_iterations, iteration_count, task_completed, task_status,
                   conversation_history, response, success, cursor, captures,
                   inferences, exec_calls, os_inputs, exec_arg, exec_out,
                   interrupted_at, user_prompt>>

error_result_as_failure(exc, count) == RunResult(FALSE, "failure", <<"Task failed">>, count)

\* lines 350-358: except Exception
error_result(exc, count) == RunResult(FALSE, "error", <<"Error: ", exc>>, count)

interrupt_result_counts_finished(count) ==
    RunResult(FALSE, "interrupted", <<"Task interrupted by user">>,
              IF count > 0 THEN count - 1 ELSE 0)

\* lines 340-348: except KeyboardInterrupt
interrupt_result(count) ==
    RunResult(FALSE, "interrupted", <<"Task interrupted by user">>, count)

\* lines 144-152, 290: the capture
Capture ==
    /\ pc = "capture"
    /\ captures' = captures + 1
    /\ pc' = "think"
    /\ UNCHANGED <<monitors, capture_arg, capture_out,
                   screen, max_iterations, iteration_count, task_completed, task_status,
                   conversation_history, response, success, result, cursor,
                   inferences, exec_calls, os_inputs, exec_arg, exec_out,
                   interrupted_at, user_prompt>>

CaptureErrorSkipsIteration ==
    /\ pc = "capture"
    /\ pc' = "delay"
    /\ UNCHANGED <<monitors, capture_arg, capture_out,
                   screen, max_iterations, iteration_count, task_completed, task_status,
                   conversation_history, response, success, result, cursor, captures,
                   inferences, exec_calls, os_inputs, exec_arg, exec_out,
                   interrupted_at, user_prompt>>

CaptureError ==
    /\ pc = "capture"
    /\ result' = error_result("capture failed", iteration_count)
    /\ pc' = "returned"
    /\ UNCHANGED <<monitors, capture_arg, capture_out,
                   screen, max_iterations, iteration_count, task_completed, task_status,
                   conversation_history, response, success, cursor, captures,
                   inferences, exec_calls, os_inputs, exec_arg, exec_out,
                   interrupted_at, user_prompt>>

\* lines 168-171: the wording of the user prompt, by the iteration count
prompt_wording(count) == IF count = 0 THEN "first" ELSE "next"

ThinkWithoutRecord ==
    /\ pc = "think"
    /\ \E r \in Replies : response' = r
    /\ inferences' = inferences + 1
    /\ user_prompt' = prompt_wording(iteration_count)
    /\ pc' = "act"
    /\ UNCHANGED <<monitors, capture_arg, capture_out,
                   screen, max_iterations, iteration_count, task_completed, task_status,
                   conversation_history, success, result, cursor, captures, exec_calls,
                   os_inputs, exec_arg, exec_out, interrupted_at>>

\* lines 154-190, 293-299: the inference round trip and the history record
Think ==
    /\ pc = "think"
    /\ \E r \in Replies :
          /\ response' = r
          /\ conversation_history' =
                Append(conversation_history, [iteration |-> iteration_count, response |-> r])
    /\ inferences' = inferences + 1
    /\ user_prompt' = prompt_wording(iteration_count)
    /\ pc' = "act"
    /\ UNCHANGED <<monitors, capture_arg, capture_out,
                   screen, max_iterations, iteration_count, task_completed, task_status,
                   success, result, cursor, captures, exec_calls, os_inputs,
                   exec_arg, exec_out, interrupted_at>>

ThinkError ==
    /\ pc = "think"
    /\ result' = error_result("connection refused", iteration_count)
    /\ pc' = "returned"
    /\ user_prompt' = prompt_wording(iteration_count)
    /\ UNCHANGED <<monitors, capture_arg, capture_out,
                   screen, max_iterations, iteration_count, task_completed, task_status,
                   conversation_history, response, success, cursor, captures,
                   inferences, exec_calls, os_inputs, exec_arg, exec_out,
                   interrupted_at>>

\* what a call of _execute_action leaves behind in the agent and the OS
Effects(st) ==
    /\ task_completed' = st.task_completed
    /\ task_status' = st.task_status
    /\ cursor' = st.out.cursor
    /\ exec_calls' = IF st.executed THEN exec_calls + 1 ELSE exec_calls
    /\ os_inputs' = os_inputs + Len(st.out.calls)
    /\ exec_arg' = IF st.executed THEN st.arg ELSE exec_arg
    /\ exec_out' = IF st.executed THEN st.out ELSE exec_out

\* line 302: _execute_action returns, or raises into `except Exception`
Act ==
    /\ pc = "act"
    /\ \E os_ok \in BOOLEAN :
          LET st == _execute_action(response, task_completed, task_status,
                                    screen, cursor, os_ok)
          IN  /\ Effects(st)
              /\ IF st.raised
                 THEN /\ result' = error_result(st.exc, iteration_count)
                      /\ pc' = "returned"
                      /\ success' = success
                 ELSE /\ result' = result
                      /\ pc' = IF st.settle THEN "settle" ELSE "delay"
                      /\ success' = st.ret
    /\ UNCHANGED <<monitors, capture_arg, capture_out,
                   screen, max_iterations, iteration_count, conversation_history,
                   response, captures, inferences, interrupted_at, user_prompt>>

\* line 256: time.sleep(1) is over and _execute_action returns
Settle ==
    /\ pc = "settle"
    /\ pc' = "delay"
    /\ UNCHANGED <<monitors, capture_arg, capture_out,
                   screen, max_iterations, iteration_count, task_completed, task_status,
                   conversation_history, response, success, result, cursor, captures,
                   inferences, exec_calls, os_inputs, exec_arg, exec_out,
                   interrupted_at, user_prompt>>

DelayRestartsIteration ==
    /\ pc = "delay"
    /\ pc' = "capture"
    /\ UNCHANGED <<monitors, capture_arg, capture_out,
                   screen, max_iterations, iteration_count, task_completed, task_status,
                   conversation_history, response, success, result, cursor, captures,
                   inferences, exec_calls, os_inputs, exec_arg, exec_out,
                   interrupted_at, user_prompt>>

DelayRestartsRun ==
    /\ pc = "delay"
    /\ pc' = "while"
    /\ iteration_count' = 0
    /\ task_completed' = FALSE
    /\ task_status' = None
    /\ conversation_history' = <<>>
    /\ captures' = 0
    /\ inferences' = 0
    /\ exec_calls' = 0
    /\ os_inputs' = 0
    /\ UNCHANGED <<monitors, capture_arg, capture_out,
                   screen, max_iterations, response, success, result, cursor,
                   exec_arg, exec_out, interrupted_at, user_prompt>>

\* line 308: time.sleep(0.5) is over
Delay ==
    /\ pc = "delay"
    /\ pc' = "while"
    /\ UNCHANGED <<monitors, capture_arg, capture_out,
                   screen, max_iterations, iteration_count, task_completed, task_status,
                   conversation_history, response, success, result, cursor, captures,
                   inferences, exec_calls, os_inputs, exec_arg, exec_out,
                   interrupted_at, user_prompt>>

\* lines 340-348: a KeyboardInterrupt arrives inside the try block.  When it
\* arrives inside _execute_action, what that call had already done stays done.
on_interrupt_as_error(at, count) == error_result("KeyboardInterrupt", count)

on_interrupt(at, count) == interrupt_result(count)

Interrupt ==
    /\ pc \in InTry
    /\ \E partial \in BOOLEAN, os_ok \in BOOLEAN :
          LET st == _execute_action(response, task_completed, task_status,
                                    screen, cursor, os_ok)
          IN  IF pc = "act" /\ partial /\ ~st.raised
              THEN Effects(st)
              ELSE UNCHANGED <<task_completed, task_status, cursor, exec_calls,
                               os_inputs, exec_arg, exec_out>>
    /\ result' = on_interrupt(pc, iteration_count)
    /\ interrupted_at' = pc
    /\ pc' = "returned"
    /\ UNCHANGED <<monitors, capture_arg, capture_out,
                   screen, max_iterations, iteration_count, conversation_history,
                   response, success, captures, inferences, user_prompt>>

Next ==
    \/ RunStart
    \/ LoopEnter
    \/ LoopExit
    \/ Capture
    \/ CaptureError
    \/ Think
    \/ ThinkError
    \/ Act
    \/ Settle
    \/ Delay
    \/ Interrupt

Spec == Init /\ [][Next]_vars

\* a statement of run() completes: the loop test, a capture, an inference,
\* the action with its OS calls, or a sleep returns or raises, and control
\* moves on without a KeyboardInterrupt.  These are the steps LoopEnter,
\* LoopExit, Capture, CaptureError, Think, ThinkError, Act, Settle and Delay.
StatementCompletes ==
    /\ pc \in InTry
    /\ pc' \in (InTry \cup {"returned"}) \ {pc}
    /\ interrupted_at' = "none"

\* run() with each of its statements eventually completing
LiveSpec == Init /\ [][Next]_vars /\ WF_pc(StatementCompletes)

(***************************************************************************)
(* The executor on its own: execute_computer_use_action called once with   *)
(* an action from a set that covers every branch of the dispatch, the      *)
(* forms an action comes in, and normalized coordinates over the range.    *)
(***************************************************************************)
NormSamples == {0, 1, 175, 500, 999, 1000}

CoordTypes == ClickTypes \cup {"left_click_drag", "mouse_move"}

CoordArguments ==
    { [action |-> t, coordinate |-> <<x, y>>] : t \in CoordTypes, x \in NormSamples, y \in NormSamples }
    \cup { [action |-> t] : t \in CoordTypes }
    \cup { [action |-> t, coordinate |-> c] : t \in CoordTypes, c \in {<<>>, <<7>>} }

OtherArguments ==
    { [action |-> "type", text |-> "hello"], [action |-> "type"],
      [action |-> "key", text |-> "tab"], [action |-> "key"],
      [action |-> "scroll", scroll_amount |-> 3], [action |-> "scroll", scroll_amount |-> 0 - 3],
      [action |-> "scroll"], [action |-> "wait", time |-> 2], [action |-> "wait"],
      [action |-> "screenshot"], [action |-> "cursor_position"],
      [action |-> "hover"], [text |-> "no action"] }

ExecActions ==
    { Flat("computer", a) : a \in CoordArguments \cup OtherArguments }
    \cup { Flat(n, a) : n \in {"computer_use", "browser", None}, a \in OtherArguments }
    \cup { Call("computer", a) : a \in OtherArguments }
    \cup { Flat("computer", JsonStr(a)) : a \in OtherArguments }
    \cup { Flat("computer", BadJsonStr), Flat("computer", NonDict), NonDict, EmptyDict }

ExecInit ==
    /\ screen \in Screens
    /\ max_iterations = 0
    /\ pc = "idle"
    /\ iteration_count = 0
    /\ task_completed = FALSE
    /\ task_status = None
    /\ conversation_history = <<>>
    /\ response = NoResponse
    /\ success = FALSE
    /\ result = NoResult
    /\ cursor \in {<<0, 0>>, <<10, 10>>, <<700, 500>>}
    /\ captures = 0
    /\ inferences = 0
    /\ exec_calls = 0
    /\ os_inputs = 0
    /\ exec_arg = NoArg
    /\ exec_out = NoOut(cursor)
    /\ interrupted_at = "none"
    /\ user_prompt = None
    /\ monitors = MonitorList(<<screen>>)
    /\ capture_arg = NoArg
    /\ capture_out = NoCaptureOut

ExecCall ==
    /\ exec_calls = 0
    /\ \E action \in ExecActions, os_ok \in BOOLEAN :
          LET out == execute_computer_use_action(action, screen, cursor, os_ok)
          IN  /\ exec_arg' = action
              /\ exec_out' = out
              /\ cursor' = out.cursor
              /\ os_inputs' = Len(out.calls)
    /\ exec_calls' = 1
    /\ UNCHANGED <<monitors, capture_arg, capture_out,
                   screen, max_iterations, pc, iteration_count, task_completed,
                   task_status, conversation_history, response, success, result,
                   captures, inferences, interrupted_at, user_prompt>>

ExecNext == ExecCall

ExecSpec == ExecInit /\ [][ExecNext]_vars

(***************************************************************************)
(* The capture device on its own: capture_screen and get_screen_size       *)
(* called with monitor numbers inside and outside the monitor list, for    *)
(* every arrangement of up to MaxMonitors monitors.                        *)
(***************************************************************************)
CaptureInit ==
    /\ monitors \in MonitorLists
    /\ screen = [w |-> monitors[2].width, h |-> monitors[2].height]
    /\ max_iterations = 0
    /\ pc = "idle"
    /\ iteration_count = 0
    /\ task_completed = FALSE
    /\ task_status = None
    /\ conversation_history = <<>>
    /\ response = NoResponse
    /\ success = FALSE
    /\ result = NoResult
    /\ cursor = <<10, 10>>
    /\ captures = 0
    /\ inferences = 0
    /\ exec_calls = 0
    /\ os_inputs = 0
    /\ exec_arg = NoArg
    /\ exec_out = NoOut(cursor)
    /\ interrupted_at = "none"
    /\ user_prompt = None
    /\ capture_arg = NoArg
    /\ capture_out = NoCaptureOut

CaptureScreenCall ==
    /\ \E n \in MonitorNumbers, grab_ok \in BOOLEAN :
          /\ capture_arg' = [fn |-> "capture_screen", monitor_number |-> n]
          /\ capture_out' = capture_screen(monitors, n, grab_ok)
    /\ UNCHANGED <<monitors, screen, max_iterations, pc, iteration_count, task_completed,
                   task_status, conversation_history, response, success, result,
                   cursor, captures, inferences, exec_calls, os_inputs, exec_arg,
                   exec_out, interrupted_at, user_prompt>>

GetScreenSizeCall ==
    /\ \E n \in MonitorNumbers :
          /\ capture_arg' = [fn |-> "get_screen_size", monitor_number |-> n]
          /\ capture_out' = get_screen_size(monitors, n)
    /\ UNCHANGED <<monitors, screen, max_iterations, pc, iteration_count, task_completed,
                   task_status, conversation_history, response, success, result,
                   cursor, captures, inferences, exec_calls, os_inputs, exec_arg,
                   exec_out, interrupted_at, user_prompt>>

CaptureNext == CaptureScreenCall \/ GetScreenSizeCall

CaptureSpec == CaptureInit /\ [][CaptureNext]_vars

(***************************************************************************)
(* Properties of run().                                                    *)
(***************************************************************************)
Terminating(resp) == HasDescriptor(resp) /\ ActionOf(resp) = "terminate"

\* the reply holds neither a structured tool call nor a delimited payload
Unparseable(resp) ==
    /\ extract_tool_calls(resp) = <<>>
    /\ ~(HasContent(resp) /\ Contains(resp["message"]["content"], Open)
                          /\ Contains(resp["message"]["content"], Close))

\* a reply on which the keyword scan of lines 212-217 sets the completion flag
KeywordReply(resp) ==
    /\ Falsy(parse_computer_use_action(resp))
    /\ HasContent(resp)
    /\ ContentHasKeyword(resp["message"]["content"])

Replied(i) == conversation_history[i].response

NoTerminateProduced == \A i \in 1..Len(conversation_history) : ~Terminating(Replied(i))

NoKeywordReply == \A i \in 1..Len(conversation_history) : ~KeywordReply(Replied(i))

IsSuccess(r) == r.success = TRUE /\ r.status = "success"

IsFailure(r) == r.success = FALSE /\ r.status = "failure"

\* what C1 says of a returned run whose last reply carried a terminate descriptor
TerminateStatusMapped ==
    LET d == Descriptor(response)
    IN  /\ Get(d, "status", None) = "success" => IsSuccess(result)
        /\ Get(d, "status", None) = "failure" => IsFailure(result)
        /\ "status" \notin DOMAIN d => IsSuccess(result)

\* C1 as stated: in every run in which the model returns a terminate
\* descriptor, status "success" gives a Run Result with success=true and
\* status="success", status "failure" gives success=false and
\* status="failure", and an omitted status gives the same as "success".
C1_TerminateStatus_AsStated ==
    (Returned /\ Terminating(response)) => TerminateStatusMapped

\* C1 as amended: the same, for a run that no KeyboardInterrupt ends while the
\* iteration of the terminate descriptor (its action step or the delay after
\* it) is still in progress; such a run returns status "interrupted".
C1_TerminateStatus ==
    (Returned /\ Terminating(response) /\ interrupted_at = "none") => TerminateStatusMapped

C1_Witness ==
    /\ Returned
    /\ Terminating(response)
    /\ "status" \notin DOMAIN Descriptor(response)
    /\ interrupted_at = "none"
    /\ IsSuccess(result)

\* C2 as stated: whatever the replies and max_iterations, a run in which no
\* terminate descriptor is produced returns status "timeout" with
\* iterations = max_iterations.
C2_Timeout_AsStated ==
    (Returned /\ NoTerminateProduced) =>
        (result.status = "timeout" /\ result.iterations = max_iterations)

\* C2 as amended: a run in which no terminate descriptor is produced, no
\* plain-text reply sets the completion flag through the keyword scan, and
\* that no KeyboardInterrupt or exception ends, returns status "timeout"
\* with iterations = max_iterations, or 0 when max_iterations is negative.
C2_Timeout ==
    (Returned /\ NoTerminateProduced /\ NoKeywordReply
        /\ interrupted_at = "none" /\ result.status # "error") =>
        /\ result.status = "timeout"
        /\ result.success = FALSE
        /\ result.iterations = (IF max_iterations < 0 THEN 0 ELSE max_iterations)
        /\ Len(conversation_history) = result.iterations

C2_Witness ==
    /\ Returned
    /\ result.status = "timeout"
    /\ max_iterations = MaxIter
    /\ result.iterations = MaxIter
    /\ Len(conversation_history) = MaxIter
    /\ NoTerminateProduced

\* C3 as stated: a reply with neither a structured tool call nor a delimited
\* payload makes the action step report failure and leave the run running:
\* no exception, no completion, no result.
C3_Unparseable_AsStated ==
    [][(pc = "act" /\ Unparseable(response) /\ interrupted_at' = "none") =>
         (pc' = "delay" /\ success' = FALSE /\ task_completed' = FALSE
          /\ result' = NoResult)]_vars

\* C3 as amended: the same for a reply whose text holds neither "terminate"
\* nor "complete" (in any letter case); a reply whose text holds one of them
\* is reported as a successful action and ends the run with status "success".
C3_Unparseable ==
    [][(pc = "act" /\ Unparseable(response) /\ interrupted_at' = "none") =>
         IF KeywordReply(response)
         THEN pc' = "delay" /\ success' = TRUE /\ task_completed' = TRUE
              /\ task_status' = "success" /\ result' = NoResult
         ELSE pc' = "delay" /\ success' = FALSE /\ task_completed' = FALSE
              /\ result' = NoResult]_vars

C3_Witness ==
    /\ pc = "capture"
    /\ iteration_count = 2
    /\ Unparseable(response)
    /\ ~KeywordReply(response)
    /\ success = FALSE
    /\ Len(conversation_history) = 1

(***************************************************************************)
(* Properties of the executor.                                             *)
(***************************************************************************)
\* the tool name and the arguments execute_computer_use_action reads from an action
ExecName(action) ==
    IF TruthyName(Get(action, "name", None)) THEN action["name"]
    ELSE Get(Get(action, "function", EmptyDict), "name", None)

ExecGiven(action) ==
    IF TruthyArgs(Get(action, "arguments", EmptyDict)) THEN action["arguments"]
    ELSE Get(Get(action, "function", EmptyDict), "arguments", EmptyDict)

ExecArgsOk(action) ==
    /\ IsDict(action)
    /\ IF IsStr(ExecGiven(action))
       THEN ExecGiven(action)["str"] = "json" /\ IsDict(ExecGiven(action)["loads"])
       ELSE IsDict(ExecGiven(action))

ExecArgs(action) ==
    IF ~ExecArgsOk(action) THEN EmptyDict
    ELSE IF IsStr(ExecGiven(action)) THEN ExecGiven(action)["loads"]
    ELSE ExecGiven(action)

ExecType(action) == Get(ExecArgs(action), "action", None)

DispatchTypes ==
    CoordTypes \cup {"type", "key", "scroll", "screenshot", "cursor_position"}

\* the executor was called with a click, move or drag whose coordinate is a
\* pair of normalized values in 0..1000
CoordCall ==
    /\ exec_calls = 1
    /\ ExecArgsOk(exec_arg)
    /\ ExecName(exec_arg) \in ToolNames
    /\ ExecType(exec_arg) \in CoordTypes
    /\ "coordinate" \in DOMAIN ExecArgs(exec_arg)
    /\ Len(ExecArgs(exec_arg)["coordinate"]) = 2
    /\ \A i \in 1..2 : ExecArgs(exec_arg)["coordinate"][i] \in 0..NormScale

\* round(norm / 1000 * dim), to the nearest whole number
Rounded(norm, dim) == (2 * norm * dim + NormScale) \div (2 * NormScale)

Truncated(norm, dim) == (norm * dim) \div NormScale

\* int((norm / 1000.0) * dim): the floor, or one less where the quotient is whole
IsDoubleTruncation(px, norm, dim) ==
    /\ px \in {Truncated(norm, dim), Truncated(norm, dim) - 1}
    /\ px # Truncated(norm, dim) => (norm * dim) % NormScale = 0

C5_InterruptedState ==
    interrupted_at # "none" =>
        /\ pc = "returned"
        /\ result.status = "interrupted"
        /\ result.success = FALSE

C5_InterruptedStep ==
    interrupted_at # "none" =>
        \/ interrupted_at' = "none"
        \/ /\ captures' = captures
           /\ inferences' = inferences
           /\ exec_calls' = exec_calls
           /\ os_inputs' = os_inputs
           /\ cursor' = cursor
           /\ result' = result

C5_Interrupt == []C5_InterruptedState /\ [][C5_InterruptedStep]_vars

C5_Witness ==
    /\ interrupted_at = "act"
    /\ os_inputs = 1
    /\ iteration_count = 1
    /\ result.status = "interrupted"

\* the first terminate descriptor of the run came in iteration k
FirstTerminateAt(k) ==
    /\ k \in 1..Len(conversation_history)
    /\ Terminating(Replied(k))
    /\ \A i \in 1..(k - 1) : ~Terminating(Replied(i))

\* C6 as stated: when the first terminate descriptor comes in iteration k,
\* the Run Result has iterations = k and k captures and k inference calls
\* were made; a terminate/success in iteration 1 gives
\* {success: true, status: "success", iterations: 1}.
C6_TerminateAtK_AsStated ==
    \A k \in 1..MaxIter + 1 :
        (Returned /\ FirstTerminateAt(k)) =>
            /\ result.iterations = k
            /\ captures = k
            /\ inferences = k
            /\ (k = 1 /\ Get(Descriptor(Replied(1)), "status", None) = "success")
                  => IsSuccess(result)

\* C6 as amended: iterations = k with k captures and k inference calls in
\* every case; {success: true, status: "success", iterations: 1} for a
\* terminate/success in iteration 1 unless a KeyboardInterrupt ends the run
\* before it returns (then status is "interrupted", iterations still 1).
C6_TerminateAtK ==
    \A k \in 1..MaxIter + 1 :
        (Returned /\ FirstTerminateAt(k)) =>
            /\ result.iterations = k
            /\ captures = k
            /\ inferences = k
            /\ k = Len(conversation_history)
            /\ (k = 1 /\ Get(Descriptor(Replied(1)), "status", None) = "success")
                  => IF interrupted_at = "none" THEN IsSuccess(result)
                     ELSE result.status = "interrupted"

C6_Witness ==
    /\ Returned
    /\ FirstTerminateAt(2)
    /\ result.iterations = 2
    /\ captures = 2
    /\ inferences = 2
    /\ result.status = "failure"

\* C7: the status of every Run Result is one of "success", "failure",
\* "timeout", "interrupted", "error", whatever the terminate descriptor held.
RunStatuses == {"success", "failure", "timeout", "interrupted", "error"}

C7_StatusEnum == Returned => result.status \in RunStatuses

\* C8: a wait descriptor passed to execute_computer_use_action reports success.
C8_WaitSucceeds ==
    (exec_calls = 1 /\ ExecArgsOk(exec_arg) /\ ExecName(exec_arg) \in ToolNames
        /\ ExecType(exec_arg) = "wait") => exec_out.ret = TRUE

\* C9: a terminate descriptor never reaches the executor: the action step of
\* an iteration whose descriptor is terminate sets the completion flag and
\* makes no executor call and no OS input call.
C9_NeverPassed ==
    exec_arg # NoArg => Get(ExecArgs(exec_arg), "action", None) # "terminate"

C9_TerminateStep ==
    (pc = "act" /\ Terminating(response)) =>
        /\ exec_calls' = exec_calls
        /\ os_inputs' = os_inputs
        /\ cursor' = cursor
        /\ pc' = "delay" => (task_completed' /\ success' = TRUE)

C9_TerminateIntercepted == []C9_NeverPassed /\ [][C9_TerminateStep]_vars

C9_Witness ==
    /\ pc = "delay"
    /\ Terminating(response)
    /\ task_completed
    /\ iteration_count = 2
    /\ exec_calls = 1
    /\ os_inputs = 1

\* C10: execute_computer_use_action never raises; it returns False for an
\* unknown action type, an unknown tool name, a malformed coordinate and a
\* failing OS primitive, and issues no OS input for an unknown type.
MalformedCoordinate(action) ==
    /\ ExecType(action) \in CoordTypes
    /\ "coordinate" \in DOMAIN ExecArgs(action)
    /\ Len(ExecArgs(action)["coordinate"]) < 2

C10_NeverRaises ==
    exec_calls = 1 =>
        /\ exec_out.raised = FALSE
        /\ ~ExecArgsOk(exec_arg) => exec_out.ret = FALSE
        /\ ExecName(exec_arg) \notin ToolNames => (exec_out.ret = FALSE /\ exec_out.calls = <<>>)
        /\ ExecType(exec_arg) \notin DispatchTypes => (exec_out.ret = FALSE /\ exec_out.calls = <<>>)
        /\ MalformedCoordinate(exec_arg) => exec_out.ret = FALSE
        /\ \A i \in 1..Len(exec_out.calls) : exec_out.calls[i].raised => exec_out.ret = FALSE

C10_Witness ==
    /\ exec_calls = 1
    /\ exec_arg = Flat("computer", [action |-> "double_click", coordinate |-> <<7>>])
    /\ exec_out.ret = FALSE
    /\ exec_out.raised = FALSE

(***************************************************************************)
(* Properties of the loop's error handling.                                *)
(***************************************************************************)
\* the action step of this iteration invoked the executor
ExecutorInvoked ==
    /\ HasDescriptor(response)
    /\ ActionOf(response) \notin {"terminate", "answer"}

\* the iteration's action step is over and the executor reported failure in it
ExecutorFailedNow ==
    /\ pc \in {"delay", "while"}
    /\ iteration_count >= 1
    /\ ExecutorInvoked
    /\ exec_out.ret = FALSE

\* C11: when the executor reports failure for an iteration's action, the run
\* stays running with no result and no error, the action is reported
\* unsuccessful and is not executed again, and the loop goes on to the next
\* iteration, or to "timeout" when the ceiling is reached.
C11_FailedState ==
    ExecutorFailedNow =>
        /\ success = FALSE
        /\ task_completed = FALSE
        /\ result = NoResult
        /\ exec_calls <= Len(conversation_history)

C11_FailedStep ==
    /\ (pc = "act" /\ exec_calls' # exec_calls /\ ~exec_out'.ret /\ interrupted_at' = "none") =>
          /\ pc' = "delay"
          /\ result' = NoResult
          /\ success' = FALSE
          /\ exec_calls' = exec_calls + 1
          /\ os_inputs' <= os_inputs + 1
    /\ (ExecutorFailedNow /\ interrupted_at' = "none") =>
          /\ exec_calls' = exec_calls
          /\ os_inputs' = os_inputs
          /\ IF pc = "delay" THEN pc' = "while" /\ result' = NoResult
             ELSE IF iteration_count < max_iterations
             THEN pc' = "capture" /\ iteration_count' = iteration_count + 1
                  /\ result' = NoResult
             ELSE pc' = "returned" /\ result'.status = "timeout"

C11_ExecutorFailureContinues == []C11_FailedState /\ [][C11_FailedStep]_vars

C11_Witness ==
    /\ pc = "capture"
    /\ iteration_count = 2
    /\ ExecutorInvoked
    /\ exec_calls = 1
    /\ os_inputs = 1
    /\ exec_out.calls[1].raised
    /\ exec_out.ret = FALSE
    /\ success = FALSE

\* the arguments of the structured tool call the parser uses are a string
\* that is no valid JSON
MalformedArguments(resp) ==
    LET tool_calls == extract_tool_calls(resp)
    IN  /\ tool_calls # <<>>
        /\ IsDict(tool_calls[1])
        /\ "function" \in DOMAIN tool_calls[1]
        /\ IsStr(Get(tool_calls[1]["function"], "arguments", EmptyDict))
        /\ Get(tool_calls[1]["function"], "arguments", EmptyDict)["str"] # "json"

\* the text of the delimited block the parser decodes is no valid JSON
MalformedBlock(resp) ==
    /\ extract_tool_calls(resp) = <<>>
    /\ HasContent(resp)
    /\ Contains(resp["message"]["content"], Open)
    /\ Contains(resp["message"]["content"], Close)
    /\ ~JsonValid(payload_text(resp["message"]["content"]))

\* C12: malformed JSON in the payload of a reply (the text of a delimited
\* block, or the arguments string of a structured tool call) is swallowed
\* and treated as "no action found": the action step raises nothing and
\* produces no "error" result, reports the iteration unsuccessful, and
\* leaves the run running.
C12_MalformedSwallowed ==
    [][(pc = "act" /\ (MalformedArguments(response) \/ MalformedBlock(response))
            /\ interrupted_at' = "none") =>
         (pc' = "delay" /\ result' = NoResult /\ success' = FALSE
          /\ task_completed' = FALSE)]_vars

\* the step in which the capture of the iteration raises
CaptureFails ==
    /\ pc = "capture"
    /\ pc' # "capture"
    /\ captures' = captures
    /\ interrupted_at' = "none"

\* C13 as stated: a capture failure is transient: the run stays running and
\* reaches no terminal state by it.
C13_CaptureTransient_AsStated ==
    [][CaptureFails => (pc' \in InTry /\ result' = NoResult)]_vars

\* C13 as amended: a capture failure ends the run: run returns status
\* "error" with success=false and iterations = the index of the failing
\* iteration, and no inference or action of that iteration takes place.
C13_CaptureFatalStep ==
    CaptureFails =>
        /\ pc' = "returned"
        /\ result'.status = "error"
        /\ result'.success = FALSE
        /\ result'.iterations = iteration_count
        /\ inferences' = inferences
        /\ exec_calls' = exec_calls
        /\ os_inputs' = os_inputs
        /\ conversation_history' = conversation_history

C13_CaptureFatalState ==
    (Returned /\ captures < iteration_count) =>
        /\ result.status \in {"error", "interrupted"}
        /\ inferences = captures
        /\ Len(conversation_history) = captures
        /\ captures = iteration_count - 1

C13_CaptureFatal == []C13_CaptureFatalState /\ [][C13_CaptureFatalStep]_vars

C13_Witness ==
    /\ Returned
    /\ result.status = "error"
    /\ result.message = <<"Error: ", "capture failed">>
    /\ iteration_count = 2
    /\ captures = 1
    /\ inferences = 1

\* the step in which the inference call of the iteration raises
ThinkFails ==
    /\ pc = "think"
    /\ pc' # "think"
    /\ inferences' = inferences
    /\ interrupted_at' = "none"

\* the step in which an exception leaves _execute_action
ActRaises ==
    /\ pc = "act"
    /\ pc' # "act"
    /\ interrupted_at' = "none"
    /\ _execute_action(response, task_completed, task_status, screen, cursor, TRUE).raised

\* the step in which an exception is raised inside the executor: by an OS
\* primitive, or by the body of execute_computer_use_action
ExecutorRaisesInside ==
    /\ pc = "act"
    /\ interrupted_at' = "none"
    /\ exec_calls' # exec_calls
    /\ \/ \E i \in 1..Len(exec_out'.calls) : exec_out'.calls[i].raised
       \/ execute_try_body(exec_arg', screen, cursor, TRUE).raised

EndsInError(exc) ==
    /\ pc' = "returned"
    /\ result' = RunResult(FALSE, "error", <<"Error: ", exc>>, iteration_count)

AnyError ==
    /\ pc' = "returned"
    /\ result'.status = "error"
    /\ result'.success = FALSE

\* C14 as stated: any exception other than an interrupt raised during a step
\* of run ends the run with status "error" and success=false.
C14_ExceptionIsError_AsStated ==
    [][(CaptureFails \/ ThinkFails \/ ActRaises \/ ExecutorRaisesInside) => AnyError]_vars

\* C14 as amended: an exception other than an interrupt that reaches run
\* (from the capture, the inference call, or _execute_action's own code)
\* ends the run with status "error", success=false and the message
\* "Error: " followed by the exception's message; run returns a result and
\* starts no later iteration.  An exception raised inside the executor is
\* caught there: the action is reported failed and the run goes on.
C14_ErrorStep ==
    /\ CaptureFails => EndsInError("capture failed")
    /\ ThinkFails => EndsInError("connection refused")
    /\ ActRaises => \E exc \in {"AttributeError", "JSONDecodeError"} : EndsInError(exc)
    /\ ExecutorRaisesInside =>
          (pc' = "delay" /\ result' = NoResult /\ success' = FALSE)
    /\ pc = "returned" =>
          (pc' = "while" /\ iteration_count' = 0 /\ captures' = 0 /\ result' = NoResult)

C14_ErrorState ==
    /\ pc = "returned" => result # NoResult
    /\ (Returned /\ result.status = "error") =>
          /\ result.success = FALSE
          /\ result.iterations = iteration_count
          /\ result.message[1] = "Error: "
          /\ ~task_completed

C14_ExceptionIsError == []C14_ErrorState /\ [][C14_ErrorStep]_vars

C14_Witness ==
    /\ Returned
    /\ result = RunResult(FALSE, "error", <<"Error: ", "connection refused">>, 2)
    /\ captures = 2
    /\ inferences = 1

(***************************************************************************)
(* Properties of the run as a whole.                                       *)
(***************************************************************************)
\* C15 as stated: once run has returned its Run Result the instance cannot
\* be put back into RUNNING.
C15_TerminalFinal_AsStated == [][pc = "returned" => pc' = "returned"]_vars

\* C15 as amended: a returned run does nothing more and its Run Result does
\* not change; the only thing the instance can do next is a further call of
\* run, which resets the iteration count, the completion flag, the status
\* and the history and is RUNNING again at iteration 0 on the same instance.
C15_ReturnedStep ==
    /\ pc = "returned" =>
          /\ pc' = "while"
          /\ iteration_count' = 0
          /\ task_completed' = FALSE
          /\ task_status' = None
          /\ conversation_history' = <<>>
          /\ result' = NoResult
          /\ UNCHANGED <<screen, max_iterations, cursor>>
    /\ pc # "returned" => result' = result \/ pc' = "returned"

C15_ReturnedState ==
    /\ result # NoResult <=> pc = "returned"
    /\ pc = "returned" =>
          result.status \in {task_status, "timeout", "interrupted", "error"}

C15_RunRestartable == []C15_ReturnedState /\ [][C15_ReturnedStep]_vars

\* a second run on the instance is in progress: the cursor is where a click
\* of an earlier run left it and this run has not invoked the executor
C15_Witness ==
    /\ pc = "capture"
    /\ iteration_count = 1
    /\ cursor = <<960, 540>>
    /\ exec_calls = 0
    /\ os_inputs = 0
    /\ conversation_history = <<>>

\* the first of the tool calls of a reply
FirstToolCall(resp) == extract_tool_calls(resp)[1]["function"]

\* C16: at most one action descriptor is acted upon per iteration: of
\* several tool calls only the first is used, the executor is invoked at
\* most once per iteration with at most one OS input call, and every
\* executor call is preceded by a capture and a model reply of its own.
C16_OnePerIterationState ==
    /\ exec_calls <= inferences
    /\ inferences <= captures
    /\ captures <= iteration_count
    /\ os_inputs <= exec_calls
    /\ Len(exec_out.calls) <= 1
    /\ pc \in {"capture", "think", "act"} => exec_calls < iteration_count
    /\ pc = "act" => (captures = iteration_count /\ inferences = iteration_count)

C16_OnePerIterationStep ==
    /\ exec_calls' # exec_calls =>
          \/ pc \in {"idle", "returned"} /\ exec_calls' = 0
          \/ /\ pc = "act"
             /\ pc' # "act"
             /\ exec_calls' = exec_calls + 1
             /\ exec_arg'.arguments = Descriptor(response)
    /\ os_inputs' # os_inputs =>
          \/ pc \in {"idle", "returned"} /\ os_inputs' = 0
          \/ exec_calls' = exec_calls + 1 /\ os_inputs' = os_inputs + 1
    /\ (pc = "act" /\ Len(extract_tool_calls(response)) > 1 /\ interrupted_at' = "none") =>
          /\ exec_calls' = exec_calls + 1
          /\ exec_arg' = Flat(FirstToolCall(response)["name"],
                              FirstToolCall(response)["arguments"])
          /\ task_completed' = task_completed

C16_OnePerIteration == []C16_OnePerIterationState /\ [][C16_OnePerIterationStep]_vars

C16_Witness ==
    /\ pc = "settle"
    /\ exec_out.ret = TRUE
    /\ Len(extract_tool_calls(response)) = 2
    /\ exec_calls = 1
    /\ os_inputs = 1
    /\ exec_arg = Flat("computer", [action |-> "type", text |-> "hello"])
    /\ exec_out.calls[1].fn = "write"
    /\ task_completed = FALSE

(***************************************************************************)
(* Properties of the click family.                                         *)
(***************************************************************************)
\* the executor was called with a click-family descriptor whose coordinate
\* is absent or a pair of normalized values
ClickCall ==
    /\ exec_calls = 1
    /\ ExecArgsOk(exec_arg)
    /\ ExecName(exec_arg) \in ToolNames
    /\ ExecType(exec_arg) \in ClickTypes
    /\ "coordinate" \in DOMAIN ExecArgs(exec_arg) =>
          /\ Len(ExecArgs(exec_arg)["coordinate"]) = 2
          /\ \A i \in 1..2 : ExecArgs(exec_arg)["coordinate"][i] \in 0..NormScale

ExpectedClick(t) ==
    IF t = "left_click" THEN [button |-> "left", clicks |-> 1]
    ELSE IF t = "right_click" THEN [button |-> "right", clicks |-> 1]
    ELSE IF t = "middle_click" THEN [button |-> "middle", clicks |-> 1]
    ELSE [button |-> "left", clicks |-> 2]

\* C17: for a click-family descriptor the executor issues exactly one OS
\* click call, at the rescaled target, with the button and multiplicity of
\* its type (left x1, right x1, middle x1, double_click -> left x2); a
\* left_click at [500,500] on a 1920x1080 screen is issued at (960, 540).
C17_ClickFamily ==
    ClickCall =>
        LET c == Get(ExecArgs(exec_arg), "coordinate", <<500, 500>>)
            call == exec_out.calls[1]
        IN  /\ Len(exec_out.calls) = 1
            /\ call.fn = "click"
            /\ IsDoubleTruncation(call.x, c[1], screen.w)
            /\ IsDoubleTruncation(call.y, c[2], screen.h)
            /\ call.button = ExpectedClick(ExecType(exec_arg)).button
            /\ call.clicks = ExpectedClick(ExecType(exec_arg)).clicks
            /\ exec_out.ret = ~call.raised
            /\ (c = <<500, 500>> /\ screen = [w |-> 1920, h |-> 1080]) =>
                  (call.x = 960 /\ call.y = 540)

C17_Witness ==
    /\ exec_calls = 1
    /\ screen = [w |-> 1920, h |-> 1080]
    /\ exec_arg = Flat("computer", [action |-> "left_click", coordinate |-> <<500, 500>>])
    /\ exec_out.ret = TRUE
    /\ exec_out.calls = <<[fn |-> "click", x |-> 960, y |-> 540, button |-> "left",
                           clicks |-> 1, raised |-> FALSE]>>
    /\ cursor = <<960, 540>>

(***************************************************************************)
(* Properties of the prompt, the settle pause and the answer action.       *)
(***************************************************************************)
\* an inference request has been sent in this run
PromptSent == user_prompt # None

\* C18: the first inference request of a run carries the "first" wording
\* and every later one the "next" wording.
C18_PromptByIteration ==
    PromptSent => user_prompt = (IF iteration_count = 1 THEN "first" ELSE "next")

\* C19 as stated: after the action step of every iteration whose action is
\* neither terminate nor wait, an answer and a failed action included, the
\* settle pause follows.
C19_SettlePause_AsStated ==
    [][(pc = "act" /\ HasDescriptor(response)
            /\ ActionOf(response) \notin {"terminate", "wait"}
            /\ interrupted_at' = "none") => pc' = "settle"]_vars

\* C19 as amended: the settle pause follows exactly when the action was
\* passed to the executor, the executor reported success and the action is
\* no wait; after an answer, a failed action, a terminate or a reply
\* without action there is no settle pause.  The pause is followed by the
\* delay between iterations, which comes after every iteration.
C19_SettleStep ==
    /\ (pc = "act" /\ interrupted_at' = "none") =>
          (pc' = "settle" <=>
              /\ exec_calls' = exec_calls + 1
              /\ exec_out'.ret = TRUE
              /\ ActionOf(response) # "wait")
    /\ (pc = "act" /\ interrupted_at' = "none" /\ HasDescriptor(response)
            /\ ActionOf(response) \in {"answer", "terminate", "wait"}) => pc' = "delay"
    /\ (pc = "settle" /\ interrupted_at' = "none") => pc' = "delay"
    /\ (pc = "delay" /\ interrupted_at' = "none") => pc' = "while"
    /\ pc' = "capture" => pc = "while"

C19_SettleState ==
    pc = "settle" =>
        /\ ExecutorInvoked
        /\ ActionOf(response) # "wait"
        /\ exec_out.ret = TRUE
        /\ success = TRUE
        /\ exec_arg.arguments = Descriptor(response)

C19_SettlePause == []C19_SettleState /\ [][C19_SettleStep]_vars

C19_Witness ==
    /\ pc = "settle"
    /\ iteration_count = 2
    /\ ActionOf(response) = "left_click"
    /\ ActionOf(Replied(1)) = "answer"
    /\ exec_calls = 1
    /\ cursor = <<960, 540>>

\* the reply of the iteration carries an answer descriptor
Answering(resp) == HasDescriptor(resp) /\ ActionOf(resp) = "answer"

\* C20: an answer descriptor leaves the run running and causes no OS action:
\* the executor is not invoked, no OS input is issued, the completion flag
\* and the status are unchanged, no result is produced, and the loop goes
\* on to its next test and, below the ceiling, to the next iteration.
C20_AnswerStep ==
    /\ (pc = "act" /\ Answering(response)) =>
          /\ exec_calls' = exec_calls
          /\ os_inputs' = os_inputs
          /\ cursor' = cursor
          /\ exec_arg' = exec_arg
          /\ task_completed' = task_completed
          /\ task_status' = task_status
          /\ interrupted_at' = "none" =>
                (pc' = "delay" /\ success' = TRUE /\ result' = NoResult)
    /\ (pc = "while" /\ Answering(response) /\ interrupted_at' = "none"
            /\ iteration_count < max_iterations) =>
          (pc' = "capture" /\ iteration_count' = iteration_count + 1 /\ result' = NoResult)

C20_AnswerState ==
    (pc \in {"delay", "while"} /\ Answering(response)) =>
        /\ task_completed = FALSE
        /\ task_status = None
        /\ result = NoResult
        /\ success = TRUE

C20_AnswerNoAction == []C20_AnswerState /\ [][C20_AnswerStep]_vars

C20_Witness ==
    /\ pc = "capture"
    /\ iteration_count = 2
    /\ Answering(response)
    /\ success = TRUE
    /\ exec_calls = 0
    /\ os_inputs = 0
    /\ task_completed = FALSE
    /\ cursor = <<10, 10>>

(***************************************************************************)
(* Properties of the reply parsing.                                        *)
(***************************************************************************)
\* the reply text holds a delimited <tool_call> ... </tool_call> block
HasBlock(resp) ==
    /\ HasContent(resp)
    /\ Contains(resp["message"]["content"], Open)
    /\ Contains(resp["message"]["content"], Close)

\* the reply of the current iteration has been received
HasReply == response # NoResponse

\* C21: whenever the reply has a non-empty tool_calls list the parsed action
\* is its first entry, whatever the text holds (a delimited block,
\* termination keywords); the delimited block is used only when there is no
\* structured tool call.  The action step acts accordingly.
C21_ParsedState ==
    HasReply =>
        LET tool_calls == extract_tool_calls(response)
            action == parse_computer_use_action(response)
        IN  /\ tool_calls # <<>> => action = tool_calls[1]
            /\ (tool_calls = <<>> /\ HasBlock(response)
                    /\ JsonValid(payload_text(response["message"]["content"]))) =>
                  action = payload_text(response["message"]["content"])[1]["json"]
            /\ (tool_calls = <<>> /\ ~HasBlock(response)) => action = NoneAction

C21_ParsedStep ==
    (pc = "act" /\ extract_tool_calls(response) # <<>> /\ HasBlock(response)
        /\ interrupted_at' = "none") =>
        /\ exec_calls' = exec_calls + 1
        /\ exec_arg' = Flat(FirstToolCall(response)["name"],
                            FirstToolCall(response)["arguments"])
        /\ task_completed' = FALSE

C21_StructuredPreferred == []C21_ParsedState /\ [][C21_ParsedStep]_vars

C21_Witness ==
    /\ pc = "settle"
    /\ extract_tool_calls(response) # <<>>
    /\ HasBlock(response)
    /\ exec_arg = Flat("computer", [action |-> "scroll", scroll_amount |-> 5])
    /\ exec_out.calls = <<[fn |-> "scroll", clicks |-> 5, raised |-> FALSE]>>
    /\ task_completed = FALSE

\* the action step ends the run through the keyword scan: it sets the
\* completion flag for a reply that carries no terminate descriptor
EndsByKeywordScan ==
    /\ pc = "act"
    /\ interrupted_at' = "none"
    /\ task_completed' = TRUE
    /\ ~Terminating(response)

C22_KeywordScanStep ==
    /\ ~Falsy(parse_computer_use_action(response)) => ~EndsByKeywordScan
    /\ (pc = "act" /\ interrupted_at' = "none"
            /\ Falsy(parse_computer_use_action(response))) =>
          /\ pc' = "delay"
          /\ exec_calls' = exec_calls
          /\ IF HasContent(response) /\ ContentHasKeyword(response["message"]["content"])
             THEN task_completed' = TRUE /\ task_status' = "success" /\ success' = TRUE
             ELSE task_completed' = FALSE /\ task_status' = task_status /\ success' = FALSE

TerminatingWithSuccess(resp) ==
    /\ Terminating(resp)
    /\ Get(Descriptor(resp), "status", "success") = "success"

\* C23 as stated: a run returns status "success" only through a terminate
\* descriptor with status success; a plain-text reply that mentions
\* "terminate" or "complete" does not produce it.
C23_KeywordNotPrimary_AsStated ==
    (Returned /\ result.status = "success") => TerminatingWithSuccess(response)

\* C23 as amended: a run returns status "success" through a terminate
\* descriptor with status success, or through a reply without a parsed
\* action whose text holds "terminate" or "complete": the action step of
\* such a reply sets the completion flag with status "success", and the run
\* returns {success: true, status: "success"} after that iteration.
C23_SuccessState ==
    (Returned /\ result.status = "success") =>
        /\ TerminatingWithSuccess(response) \/ KeywordReply(response)
        /\ result.success = TRUE
        /\ result.iterations = Len(conversation_history)

C23_KeywordStep ==
    /\ (pc = "act" /\ KeywordReply(response) /\ interrupted_at' = "none") =>
          (task_completed' = TRUE /\ task_status' = "success" /\ pc' = "delay")
    /\ (pc = "while" /\ KeywordReply(response) /\ interrupted_at' = "none") =>
          (pc' = "returned" /\ IsSuccess(result'))

C23_KeywordTerminates == []C23_SuccessState /\ [][C23_KeywordStep]_vars

C23_Witness ==
    /\ Returned
    /\ IsSuccess(result)
    /\ response = TextReply(<<Lit("complete the form")>>)
    /\ result.iterations = 1
    /\ max_iterations = 2

(***************************************************************************)
(* Properties of the order of events.                                      *)
(***************************************************************************)
\* C24: within every iteration capture, inference, action execution and the
\* fixed delay occur in this order, each at most once, and the capture of
\* the next iteration comes only after the delay of this one is over.
C24_SerializedState ==
    /\ pc \in {"idle", "while", "capture", "think", "act", "settle", "delay", "returned"}
    /\ pc = "capture" => (captures = iteration_count - 1 /\ inferences = iteration_count - 1)
    /\ pc = "think" => (captures = iteration_count /\ inferences = iteration_count - 1)
    /\ pc \in {"act", "settle", "delay"} =>
          (captures = iteration_count /\ inferences = iteration_count)
    /\ pc = "while" => (captures = iteration_count /\ inferences = iteration_count)
    /\ pc \in {"capture", "think", "act"} => exec_calls <= iteration_count - 1
    /\ exec_calls <= iteration_count

C24_SerializedStep ==
    /\ captures' # captures =>
          \/ pc \in {"idle", "returned"} /\ captures' = 0
          \/ pc = "capture" /\ pc' = "think" /\ captures' = captures + 1
    /\ inferences' # inferences =>
          \/ pc \in {"idle", "returned"} /\ inferences' = 0
          \/ pc = "think" /\ pc' = "act" /\ inferences' = inferences + 1
    /\ exec_calls' # exec_calls =>
          \/ pc \in {"idle", "returned"} /\ exec_calls' = 0
          \/ pc = "act" /\ pc' \in {"settle", "delay", "returned"}
                /\ exec_calls' = exec_calls + 1
    /\ (pc' = "delay" /\ pc # "delay") => pc \in {"act", "settle"}
    /\ (pc' = "while" /\ pc # "while") => pc \in {"delay", "idle", "returned"}
    /\ (pc' = "capture" /\ pc # "capture") =>
          (pc = "while" /\ iteration_count' = iteration_count + 1)
    /\ iteration_count' # iteration_count =>
          \/ pc \in {"idle", "returned"} /\ iteration_count' = 0
          \/ pc = "while" /\ pc' = "capture"

C24_Serialized == []C24_SerializedState /\ [][C24_SerializedStep]_vars

C24_Witness ==
    /\ pc = "think"
    /\ iteration_count = 2
    /\ captures = 2
    /\ inferences = 1
    /\ exec_calls = 1
    /\ Len(conversation_history) = 1

(***************************************************************************)
(* Properties of the drag, the no-op descriptors, key and scroll.          *)
(***************************************************************************)
\* the executor was called with a left_click_drag whose coordinate is
\* absent or a pair of normalized values, and the OS call went through
DragCall ==
    /\ exec_calls = 1
    /\ ExecArgsOk(exec_arg)
    /\ ExecName(exec_arg) \in ToolNames
    /\ ExecType(exec_arg) = "left_click_drag"
    /\ "coordinate" \in DOMAIN ExecArgs(exec_arg) =>
          /\ Len(ExecArgs(exec_arg)["coordinate"]) = 2
          /\ \A i \in 1..2 : ExecArgs(exec_arg)["coordinate"][i] \in 0..NormScale
    /\ exec_out.ret = TRUE

\* C25: a left_click_drag with coordinate c drags from the current cursor
\* position to the rescaled pixel of c: after the action the cursor is at
\* the rescaled target (kept on the screen), whatever it was before.
C25_DragToTarget ==
    DragCall =>
        LET c == Get(ExecArgs(exec_arg), "coordinate", <<500, 500>>)
            call == exec_out.calls[1]
        IN  /\ Len(exec_out.calls) = 1
            /\ IsDoubleTruncation(call.x, c[1], screen.w)
            /\ IsDoubleTruncation(call.y, c[2], screen.h)
            /\ cursor = OnScreen(call.x, call.y, screen)

\* the executor was called with a descriptor of one of the given types
TypedCall(types) ==
    /\ exec_calls = 1
    /\ ExecArgsOk(exec_arg)
    /\ ExecName(exec_arg) \in ToolNames
    /\ ExecType(exec_arg) \in types

\* C26: screenshot and cursor_position are no-ops in the executor: the call
\* returns true, issues no mouse, keyboard or scroll input, and leaves the
\* cursor and the executor's screen size as they were.
C26_NoOpState ==
    TypedCall({"screenshot", "cursor_position"}) =>
        /\ exec_out.raised = FALSE
        /\ exec_out.ret = TRUE
        /\ exec_out.calls = <<>>
        /\ os_inputs = 0

C26_NoOpStep ==
    (exec_calls = 0 /\ TypedCall({"screenshot", "cursor_position"})') =>
        /\ cursor' = cursor
        /\ exec_out'.cursor = cursor
        /\ screen' = screen
        /\ os_inputs' = os_inputs

C26_NoOps == []C26_NoOpState /\ [][C26_NoOpStep]_vars

C26_Witness ==
    /\ exec_calls = 1
    /\ exec_arg = Flat("computer", [action |-> "cursor_position"])
    /\ exec_out.ret = TRUE
    /\ exec_out.calls = <<>>
    /\ cursor = <<700, 500>>

\* C28: a key descriptor presses exactly one key, the one named in text and
\* "enter" when text is not given; a scroll descriptor issues exactly one
\* wheel event of the signed scroll_amount (positive = up) and of 0 when
\* scroll_amount is not given.
C28_KeyAndScroll ==
    /\ TypedCall({"key"}) =>
          /\ Len(exec_out.calls) = 1
          /\ exec_out.calls[1].fn = "press"
          /\ exec_out.calls[1].key =
                (IF "text" \in DOMAIN ExecArgs(exec_arg) THEN ExecArgs(exec_arg)["text"]
                 ELSE "enter")
          /\ exec_out.ret = ~exec_out.calls[1].raised
    /\ TypedCall({"scroll"}) =>
          /\ Len(exec_out.calls) = 1
          /\ exec_out.calls[1].fn = "scroll"
          /\ exec_out.calls[1].clicks =
                (IF "scroll_amount" \in DOMAIN ExecArgs(exec_arg)
                 THEN ExecArgs(exec_arg)["scroll_amount"] ELSE 0)
          /\ exec_out.ret = ~exec_out.calls[1].raised
    /\ TypedCall({"key", "scroll"}) => cursor = exec_out.cursor

C28_Witness ==
    /\ exec_calls = 1
    /\ exec_arg = Flat("computer", [action |-> "key", text |-> "tab"])
    /\ exec_out.ret = TRUE
    /\ exec_out.calls = <<[fn |-> "press", key |-> "tab", raised |-> FALSE]>>

(***************************************************************************)
(* Properties of the in-memory log of a run.                               *)
(***************************************************************************)
\* s is t, or t with further records at its end
IsPrefix(s, t) == Len(s) <= Len(t) /\ SubSeq(t, 1, Len(s)) = s

\* one record per completed capture and inference, numbered 1, 2, 3, ...
LogCounts ==
    /\ Len(conversation_history) = inferences
    /\ Len(conversation_history) \in {iteration_count, iteration_count - 1} \cap Nat
    /\ \A i \in 1..Len(conversation_history) : conversation_history[i].iteration = i

\* records are appended one at a time, after an inference, and never
\* modified or removed while the run lasts
LogAppendOnly ==
    pc \notin {"idle", "returned"} =>
        /\ IsPrefix(conversation_history, conversation_history')
        /\ Len(conversation_history') <= Len(conversation_history) + 1
        /\ conversation_history' # conversation_history =>
              /\ pc = "think"
              /\ inferences' = inferences + 1
              /\ conversation_history'[Len(conversation_history')] =
                    [iteration |-> iteration_count, response |-> response']

\* C27 as stated: one record per completed capture and inference, the log
\* length is iteration_count or iteration_count-1, indices are 1,2,3,..., and
\* each record holds the iteration's action and its executed_ok outcome.
C27_LogRecords_AsStated ==
    /\ LogCounts
    /\ \A i \in 1..Len(conversation_history) :
          {"action", "executed_ok"} \subseteq DOMAIN conversation_history[i]

\* C27 as amended: one record per completed capture and inference, the log
\* length is iteration_count or iteration_count-1, indices are 1,2,3,...,
\* records are never modified or removed during the run, and each record
\* holds exactly the iteration index and the model's reply: neither the
\* parsed action nor the outcome of its execution is recorded.
C27_LogState ==
    /\ LogCounts
    /\ \A i \in 1..Len(conversation_history) :
          /\ DOMAIN conversation_history[i] = {"iteration", "response"}
          /\ conversation_history[i].response \in Replies
    /\ (pc \in {"act", "settle", "delay"} /\ conversation_history # <<>>) =>
          conversation_history[Len(conversation_history)].response = response

C27_LogRecords == []C27_LogState /\ [][LogAppendOnly]_vars

C27_Witness ==
    /\ pc = "delay"
    /\ iteration_count = 2
    /\ Len(conversation_history) = 2
    /\ conversation_history[1].iteration = 1
    /\ conversation_history[2] = [iteration |-> 2, response |-> response]
    /\ conversation_history[1].response # response
    /\ exec_out.ret = FALSE
    /\ exec_calls = 2

(***************************************************************************)
(* The iteration ceiling.                                                  *)
(***************************************************************************)
Max(a, b) == IF a >= b THEN a ELSE b

\* C30: in every reachable state of run, 0 <= iteration_count <=
\* max(max_iterations, 0), and the captures, the inference calls and the
\* executor invocations made so far in the run are each at most
\* iteration_count.
C30_IterationCeiling ==
    /\ 0 <= iteration_count
    /\ iteration_count <= Max(max_iterations, 0)
    /\ captures \in 0..iteration_count
    /\ inferences \in 0..iteration_count
    /\ exec_calls \in 0..iteration_count
    /\ Returned => result.iterations = iteration_count

C30_Witness ==
    /\ pc = "delay"
    /\ max_iterations = 2
    /\ iteration_count = 2
    /\ captures = 2
    /\ inferences = 2
    /\ exec_calls = 2
    /\ task_completed = FALSE

(***************************************************************************)
(* Properties of the capture device.                                       *)
(***************************************************************************)
\* the numbers that name an entry of the monitor list: 0 for all monitors
\* together, 1.. for the monitors
ValidMonitorNumbers == 0..(Len(monitors) - 1)

\* C29: a capture or a screen-size request for a monitor index that is no
\* valid monitor number, a negative one included, fails with an
\* out-of-range error and returns no bitmap or size.
C29_OutOfRange ==
    (capture_arg # NoArg /\ capture_arg.monitor_number \notin ValidMonitorNumbers) =>
        /\ capture_out.raised = TRUE
        /\ capture_out.exc = "IndexError"
        /\ capture_out.value = None

(***************************************************************************)
(* Properties of the Run Result.                                           *)
(***************************************************************************)
\* C31: in every Run Result returned by run, success is true if and only
\* if status is "success"; a result with status timeout, interrupted,
\* error, failure or any other terminate status has success = false.
C31_SuccessIffStatus ==
    Returned =>
        /\ result.success \in BOOLEAN
        /\ result.success = (result.status = "success")
        /\ result.status \in {"timeout", "interrupted", "error", "failure", "done"} =>
              result.success = FALSE

C31_Witness ==
    /\ Returned
    /\ result.status = "done"
    /\ result.success = FALSE
    /\ task_completed = TRUE
    /\ interrupted_at = "none"

\* C32 as stated: a terminate descriptor returned in the last permitted
\* iteration (iteration_count = max_iterations) yields the descriptor's
\* status, not "timeout"; "timeout" is reported only when the completion
\* flag is still unset when the loop exits.
C32_LastIterationTerminate_AsStated ==
    /\ (Returned /\ result.status = "timeout") => task_completed = FALSE
    /\ (Returned /\ Terminating(response) /\ iteration_count = max_iterations) =>
          result.status = Get(Descriptor(response), "status", "success")

\* C32 as amended: a terminate descriptor returned in the last permitted
\* iteration yields the descriptor's status and never "timeout", provided
\* no KeyboardInterrupt arrives before the loop exits (then the status is
\* "interrupted"); "timeout" is reported only when the completion flag is
\* still unset at the loop exit.
C32_LastIterationTerminate ==
    /\ (Returned /\ result.status = "timeout") =>
          (task_completed = FALSE /\ interrupted_at = "none"
             /\ iteration_count >= max_iterations)
    /\ (Returned /\ interrupted_at = "none" /\ task_completed) =>
          (result.status = task_status /\ result.iterations = iteration_count)
    /\ (Returned /\ interrupted_at = "none" /\ Terminating(response)
          /\ iteration_count = max_iterations) =>
          /\ task_completed = TRUE
          /\ result.status = Get(Descriptor(response), "status", "success")
          /\ result.status # "timeout"

C32_Witness ==
    /\ Returned
    /\ interrupted_at = "none"
    /\ max_iterations = 2
    /\ iteration_count = 2
    /\ response = ToolReply([action |-> "terminate", status |-> "failure"])
    /\ result.status = "failure"
    /\ Len(conversation_history) = 2

(***************************************************************************)
(* Properties of the completion flag.                                      *)
(***************************************************************************)
\* C33: once the completion flag is set in an iteration (by a terminate
\* descriptor or by the keyword heuristic), no further capture, inference
\* or executor invocation happens in that run; only the inter-iteration
\* delay of the same iteration still runs before the result is produced.
C33_CompletedState ==
    task_completed =>
        /\ pc \in {"delay", "while", "returned"}
        /\ Terminating(response) \/ KeywordReply(response)
        /\ captures = iteration_count
        /\ inferences = iteration_count
        /\ Len(conversation_history) = iteration_count

C33_CompletedStep ==
    (task_completed /\ task_completed') =>
        /\ captures' = captures
        /\ inferences' = inferences
        /\ exec_calls' = exec_calls
        /\ os_inputs' = os_inputs
        /\ iteration_count' = iteration_count
        /\ pc = "delay" => pc' \in {"while", "returned"}
        /\ pc = "while" => (pc' = "returned" /\ result'.iterations = iteration_count)

C33_CompletionStops == []C33_CompletedState /\ [][C33_CompletedStep]_vars

C33_Witness ==
    /\ Returned
    /\ task_completed
    /\ interrupted_at = "none"
    /\ KeywordReply(response)
    /\ ~Terminating(response)
    /\ iteration_count = 1
    /\ max_iterations = 2
    /\ captures = 1
    /\ exec_calls = 0

ToolNameOf(resp) ==
    LET action == parse_computer_use_action(resp)
    IN  IF "function" \in DOMAIN action THEN Get(action["function"], "name", None)
        ELSE Get(action, "name", "computer")

\* the reply's action is a call of a tool other than computer / computer_use
ForeignCall(resp) == HasDescriptor(resp) /\ ToolNameOf(resp) \notin ToolNames

\* C35: a tool call whose function name is neither "computer" nor
\* "computer_use" never causes OS input (the executor returns false for it),
\* yet a terminate or answer action inside such a call is honoured by the
\* loop, which looks at the action argument before the tool name is checked.
C35_ForeignState ==
    (exec_calls > 0 /\ ExecName(exec_arg) \notin ToolNames) =>
        (exec_out.ret = FALSE /\ exec_out.calls = <<>>)

C35_ForeignStep ==
    (pc = "act" /\ ForeignCall(response)) =>
        /\ os_inputs' = os_inputs
        /\ cursor' = cursor
        /\ interrupted_at' = "none" =>
              /\ pc' = "delay"
              /\ ActionOf(response) = "terminate" =>
                    /\ task_completed' = TRUE
                    /\ task_status' = Get(Descriptor(response), "status", "success")
                    /\ success' = TRUE
                    /\ exec_calls' = exec_calls
              /\ ActionOf(response) = "answer" =>
                    /\ task_completed' = task_completed
                    /\ success' = TRUE
                    /\ exec_calls' = exec_calls
              /\ ActionOf(response) \notin {"terminate", "answer"} =>
                    /\ exec_calls' = exec_calls + 1
                    /\ exec_arg'.name = ToolNameOf(response)
                    /\ exec_out'.ret = FALSE
                    /\ success' = FALSE
                    /\ task_completed' = task_completed

C35_ForeignTool == []C35_ForeignState /\ [][C35_ForeignStep]_vars

C35_Witness ==
    /\ Returned
    /\ response = Reply(<<>>, <<Call("browser", [action |-> "terminate", status |-> "success"])>>)
    /\ IsSuccess(result)
    /\ result.iterations = 2
    /\ Replied(1) = Reply(<<>>, <<Call("browser", [action |-> "key", text |-> "tab"])>>)
    /\ exec_calls = 1
    /\ exec_out.ret = FALSE
    /\ os_inputs = 0

(***************************************************************************)
(* Properties of a run on a reused instance.                               *)
(***************************************************************************)
\* the Run Result that the replies logged in a run give by themselves when
\* the run ends neither by an interrupt nor by a failing capture or inference
OutcomeOf(history, max) ==
    LET n == Len(history)
        st == IF n = 0
              THEN Step(FALSE, "", FALSE, FALSE, None, FALSE, NoArg, NoOut(<<0, 0>>), FALSE)
              ELSE _execute_action(history[n].response, FALSE, None,
                                   [w |-> 1920, h |-> 1080], <<0, 0>>, TRUE)
    IN  IF st.raised THEN error_result(st.exc, n)
        ELSE loop_result(st.task_completed, st.task_status, n, max)

\* C36: run resets iteration_count, task_completed, task_status and
\* conversation_history before its first iteration, so the Run Result and
\* the log of a run on a reused instance depend only on that run's model
\* replies and not on any earlier run on the same instance.
C36_FreshRun ==
    /\ (pc = "while" /\ iteration_count = 0) =>
          /\ task_completed = FALSE
          /\ task_status = None
          /\ conversation_history = <<>>
          /\ result = NoResult
    /\ pc \in InTry =>
          /\ Len(conversation_history) = inferences
          /\ \A i \in 1..(Len(conversation_history) - 1) :
                LET st == _execute_action(Replied(i), FALSE, None, screen, <<0, 0>>, TRUE)
                IN  ~st.raised /\ ~st.task_completed
    /\ (Returned /\ interrupted_at = "none" /\ Len(conversation_history) = iteration_count) =>
          result = OutcomeOf(conversation_history, max_iterations)

C36_Witness ==
    /\ Returned
    /\ cursor # <<10, 10>>
    /\ os_inputs = 0
    /\ exec_calls = 0
    /\ iteration_count = 1
    /\ Answering(response)
    /\ result.status = "timeout"
    /\ conversation_history = <<[iteration |-> 1, response |-> response]>>

(***************************************************************************)
(* Properties of the iteration count of interrupted and failed runs.       *)
(***************************************************************************)
\* the run was cut short inside an iteration: by an interrupt between the
\* increment and the end of the delay, or by an exception of a step
CutInsideIteration ==
    \/ interrupted_at \in {"capture", "think", "act", "settle", "delay"}
    \/ interrupted_at = "none" /\ result.status = "error"

\* C37 as stated: in a Run Result with status "interrupted" or "error",
\* iterations is the number of iterations started, the one in progress
\* included; it is at least 1 when the failure happened inside the loop
\* and at most max_iterations.
C37_IterationsOnFailure_AsStated ==
    (Returned /\ result.status \in {"interrupted", "error"}) =>
        /\ result.iterations = iteration_count
        /\ CutInsideIteration => result.iterations >= 1
        /\ result.iterations <= max_iterations

\* C37 as amended: the same, with iterations at most max(max_iterations, 0):
\* a run with a negative max_iterations that is interrupted before its loop
\* test has iterations = 0, which exceeds max_iterations.
C37_IterationsOnFailure ==
    (Returned /\ result.status \in {"interrupted", "error"}) =>
        /\ result.iterations = iteration_count
        /\ captures \in {iteration_count - 1, iteration_count} \cap Nat
        /\ CutInsideIteration => result.iterations >= 1
        /\ interrupted_at = "while" => result.iterations = Len(conversation_history)
        /\ interrupted_at \in {"capture", "think"} =>
              result.iterations = Len(conversation_history) + 1
        /\ result.iterations <= Max(max_iterations, 0)

C37_Witness ==
    /\ Returned
    /\ result.status = "interrupted"
    /\ interrupted_at = "think"
    /\ result.iterations = 2
    /\ Len(conversation_history) = 1
    /\ captures = 2
    /\ inferences = 1

(***************************************************************************)
(* Properties of a descriptor without coordinate.                          *)
(***************************************************************************)
\* the executor was called with a click, move or drag that has no coordinate
NoCoordinateCall ==
    /\ TypedCall(CoordTypes)
    /\ "coordinate" \notin DOMAIN ExecArgs(exec_arg)

\* C38: a click, move or drag descriptor without a coordinate field is not
\* rejected: the executor substitutes the normalized centre [500,500] and
\* issues the OS action at the screen centre, returning true (when the OS
\* primitive does not fail).
C38_DefaultCentre ==
    NoCoordinateCall =>
        /\ exec_out.raised = FALSE
        /\ Len(exec_out.calls) = 1
        /\ exec_out.calls[1].x = screen.w \div 2
        /\ exec_out.calls[1].y = screen.h \div 2
        /\ exec_out.calls[1].raised = FALSE =>
              /\ exec_out.ret = TRUE
              /\ cursor = <<screen.w \div 2, screen.h \div 2>>

====
